---- MODULE Spec2Model ----
(***************************************************************************)
(* A model of seer's branching executor (src/executor.rs) and of the part  *)
(* of the evaluator state it clones, steps and enqueues                    *)
(* (src/eval_context.rs).                                                  *)
(*                                                                         *)
(* Heap objects are modelled by identity: an EvalContext holds references  *)
(* into the stores mems, globs and stacks, so that "clone" is an operation *)
(* that can share or copy, and independence of clones is a property of the *)
(* model rather than of the notation.                                      *)
(*                                                                         *)
(* step() itself (step.rs, terminator/mod.rs) and the memory manager       *)
(* (memory.rs) are not among the sources; they are modelled from the       *)
(* specification, sections 4.2, 4.3 and 4.6.                               *)
(***************************************************************************)
EXTENDS Integers, Sequences, FiniteSets, TLC

VARIABLES
  pc,             \* where eval_main is: "start", "loop", "done", "returned", "panicked"
  mir,            \* the entry function's MIR (signature and basic blocks)
  limits,         \* ResourceLimits handed to eval_main
  queue,          \* Executor.queue : VecDeque<EvalContext>
  mems,           \* Memory objects by reference
  globs,          \* globals maps by reference
  stacks,         \* call stacks by reference
  next_ref,       \* next fresh object reference
  next_alloc_id,  \* the process-wide allocation-id counter
  ptr,            \* eval_main's local `ptr`: <<>> is None, <<a>> is Some(a)
  hist            \* history (ghost) variables, read only by the properties

vars == <<pc, mir, limits, queue, mems, globs, stacks, next_ref, next_alloc_id, ptr, hist>>

----------------------------------------------------------------------------
(* Bounds and program constants *)

MaxStepLimit == 8

InputLen == 21

U8Max == 255

DefaultStackLimit == 100

----------------------------------------------------------------------------
(* Values *)

Undef == [t |-> "Undef", n |-> 0]

Bytes(n) == [t |-> "Bytes", n |-> n]

Ptr(a) == [t |-> "Ptr", n |-> a]

ByVal(p) == [tag |-> "ByVal", p1 |-> p, p2 |-> Undef]

ByValPair(p, q) == [tag |-> "ByValPair", p1 |-> p, p2 |-> q]

ByRef(a) == [tag |-> "ByRef", p1 |-> Ptr(a), p2 |-> Undef]

----------------------------------------------------------------------------
(* Guest programs in abstract IR terms.  A statement is [k, l, n, z]: its   *)
(* kind, destination local, a number (constant, operand count or length)   *)
(* and whether the destination type is zero-sized.  A terminator is        *)
(* [k, discr, values, targets].  Basic blocks are numbered from 1, so      *)
(* START_BLOCK is block 1.                                                 *)

Stmt(k, l, n, z) == [k |-> k, l |-> l, n |-> n, z |-> z]

Term(k, discr, values, targets) ==
  [k |-> k, discr |-> discr, values |-> values, targets |-> targets]

Block(stmts, term) == [statements |-> stmts, terminator |-> term]

\* discriminant expressions over the symbolic byte input[0]
Const(c) == [kind |-> "const", c |-> c]

Input0 == [kind |-> "input", c |-> 0]

EqConst(c) == [kind |-> "eqconst", c |-> c]

NoDiscr == Const(0)

Mir(name, nil, argc, argty, ndecls, blocks) ==
  [name |-> name, return_ty_nil |-> nil, arg_count |-> argc, arg_ty |-> argty,
   local_decls_len |-> ndecls, basic_blocks |-> blocks]

\* fn main(input: &[u8]) { if input[0] == 42 { panic!() } else { () } }
Branch42 ==
  Mir("branch42", TRUE, 1, "&[u8]", 3,
      << Block(<<Stmt("Nop", 0, 0, FALSE)>>,
               Term("Assert", Const(1), <<1>>, <<2>>)),
         Block(<<Stmt("Use", 2, 0, FALSE)>>,
               Term("SwitchInt", EqConst(42), <<0>>, <<4, 3>>)),
         Block(<<>>, Term("Panic", NoDiscr, <<>>, <<>>)),
         Block(<<Stmt("Aggregate", 0, 0, TRUE)>>,
               Term("Return", NoDiscr, <<>>, <<>>)) >>)

\* fn main() { let x = 1; loop-free jump; }
GotoProg ==
  Mir("goto", TRUE, 0, "", 2,
      << Block(<<Stmt("Use", 1, 1, FALSE)>>, Term("Goto", NoDiscr, <<>>, <<2>>)),
         Block(<<>>, Term("Return", NoDiscr, <<>>, <<>>)) >>)

\* fn main(input: &[u8]) {
\*   if input[0] == 0 { box, store }
\*   else { match input[0] { 0 => { box, store }, 1 => { box, static }, _ => { box, panic } } } }
ForkAlloc ==
  Mir("fork_alloc", TRUE, 1, "&[u8]", 3,
      << Block(<<>>, Term("SwitchInt", EqConst(0), <<0>>, <<4, 2>>)),
         Block(<<Stmt("Box", 2, 0, FALSE), Stmt("StorePtr", 2, 7, FALSE)>>,
               Term("Return", NoDiscr, <<>>, <<>>)),
         Block(<<Stmt("Box", 2, 0, FALSE), Stmt("Static", 1, 5, FALSE)>>,
               Term("Return", NoDiscr, <<>>, <<>>)),
         Block(<<>>, Term("SwitchInt", Input0, <<0, 1>>, <<2, 3, 5>>)),
         Block(<<Stmt("Box", 2, 0, FALSE)>>, Term("Panic", NoDiscr, <<>>, <<>>)) >>)

\* fn main() { let a = (1, 2); let z = ((), ()); let r = [0; 2]; }
Aggregates ==
  Mir("aggregates", TRUE, 0, "", 4,
      << Block(<<Stmt("Aggregate", 1, 2, FALSE), Stmt("Aggregate", 2, 2, TRUE),
                 Stmt("Repeat", 3, 2, FALSE)>>,
               Term("Return", NoDiscr, <<>>, <<>>)) >>)

\* fn main() { loop { x = 1 } }  -- the back edge is a concrete switch
LoopProg ==
  Mir("loop", TRUE, 0, "", 2,
      << Block(<<Stmt("Use", 1, 1, FALSE)>>,
               Term("SwitchInt", Const(0), <<0>>, <<1, 1>>)) >>)

\* fn main() { let r = [0; 1]; }  -- the array lives in an allocation of the frame
RepeatProg ==
  Mir("repeat", TRUE, 0, "", 2,
      << Block(<<Stmt("Repeat", 1, 1, FALSE)>>, Term("Return", NoDiscr, <<>>, <<>>)) >>)

Programs == {Branch42, GotoProg, ForkAlloc, Aggregates, LoopProg, RepeatProg}

\* entry functions whose signature eval_main does not accept
BadSignatures ==
  { Mir("ret_u8", FALSE, 0, "", 1, GotoProg.basic_blocks),
    Mir("two_args", TRUE, 2, "&[u8]", 3, Branch42.basic_blocks),
    Mir("ret_and_arg", FALSE, 1, "&[u8]", 2, Branch42.basic_blocks),
    Mir("arg_u8", TRUE, 1, "u8", 2, Branch42.basic_blocks),
    Mir("arg_ref_u8", TRUE, 1, "&u8", 2, Branch42.basic_blocks),
    Mir("arg_slice_u16", TRUE, 1, "&[u16]", 2, Branch42.basic_blocks) }

----------------------------------------------------------------------------
(* Constraint store and feasibility oracle (specification 4.2).  A         *)
(* constraint relates a discriminant expression over input[0] to a value.  *)

Constraint(discr, op, val) == [discr |-> discr, op |-> op, val |-> val]

EvalDiscr(d, x) ==
  CASE d.kind = "input" -> x
    [] d.kind = "eqconst" -> IF x = d.c THEN 1 ELSE 0
    [] OTHER -> d.c

Holds(k, x) ==
  IF k.op = "eq" THEN EvalDiscr(k.discr, x) = k.val ELSE EvalDiscr(k.discr, x) # k.val

Satisfies(cs, x) == \A i \in DOMAIN cs : Holds(cs[i], x)

feasible(cs) == \E x \in 0..U8Max : Satisfies(cs, x)

push_constraint(memory, k) == [memory EXCEPT !.constraints = Append(@, k)]

----------------------------------------------------------------------------
(* Memory manager (specification 4.3).  An evaluation context c threads    *)
(* the evaluator's objects through one step: c.err = "" while it is Ok.    *)

NewMemory == [allocs |-> <<>>, constraints |-> <<>>]

Without(f, a) == [x \in DOMAIN f \ {a} |-> f[x]]

MaxOf(S) == IF S = {} THEN 0 ELSE CHOOSE m \in S : \A x \in S : x <= m

\* a per-Memory counter, copied by clone: the next id after the ids this Memory holds
fresh_alloc_id_per_memory(c) == MaxOf(DOMAIN c.memory.allocs) + 1

\* allocation ids come from the process-wide counter
fresh_alloc_id(c) == c.next_id

\* Pointer::zst_ptr(): the one pointer of every zero-sized value
ZstAllocId == 0

\* the integer n used as a pointer designates no allocation
NeverAlloc(n) == 0 - n

\* an allocation that is fresh whatever its size
allocate_zero_sized(c, len, val) ==
  [c EXCEPT !.memory.allocs = @ @@ (fresh_alloc_id(c) :> [len |-> len, val |-> val,
                                                          static |-> FALSE, mutable |-> TRUE]),
            !.next_id = @ + 1,
            !.issued = Append(@, fresh_alloc_id(c)),
            !.last_alloc = fresh_alloc_id(c)]

\* an allocation of size zero is the zero-sized pointer and allocates nothing
allocate(c, len, val) ==
  LET a == fresh_alloc_id(c) IN
  IF len = 0 THEN [c EXCEPT !.last_alloc = ZstAllocId]
  ELSE
  [c EXCEPT !.memory.allocs = @ @@ (a :> [len |-> len, val |-> val, static |-> FALSE,
                                          mutable |-> TRUE]),
            !.next_id = @ + 1,
            !.issued = Append(@, a),
            !.last_alloc = a]

deallocate(c, a) ==
  IF a = ZstAllocId THEN c
  ELSE IF a \notin DOMAIN c.memory.allocs THEN [c EXCEPT !.err = "DanglingPointerDeref"]
  ELSE IF c.memory.allocs[a].static THEN [c EXCEPT !.err = "DeallocatedStaticMemory"]
  ELSE [c EXCEPT !.memory.allocs = Without(@, a)]

leak_report(memory) == Cardinality({a \in DOMAIN memory.allocs : ~memory.allocs[a].static})

\* a write that looks up its allocation whatever its size
write_primval_mem_checked(c, a, p, size) ==
  IF a \notin DOMAIN c.memory.allocs THEN [c EXCEPT !.err = "DanglingPointerDeref"]
  ELSE IF size = 0 THEN c
  ELSE [c EXCEPT !.memory.allocs[a].val = p]

\* a write of size bytes; a write of no bytes touches nothing
write_primval_mem(c, a, p, size) ==
  IF size = 0 THEN c
  ELSE IF a \notin DOMAIN c.memory.allocs THEN [c EXCEPT !.err = "DanglingPointerDeref"]
  ELSE IF ~c.memory.allocs[a].mutable THEN [c EXCEPT !.err = "ModifiedConstantMemory"]
  ELSE [c EXCEPT !.memory.allocs[a].val = p]

\* marks the allocation static and (im)mutable, and then the allocations its
\* contents point to that are not static yet
RECURSIVE mark_static_initalized(_, _, _)
mark_static_initalized(c, a, mutable) ==
  IF a = ZstAllocId THEN c
  ELSE IF a \notin DOMAIN c.memory.allocs THEN [c EXCEPT !.err = "DanglingPointerDeref"]
  ELSE LET c1 == [c EXCEPT !.memory.allocs[a].static = TRUE,
                           !.memory.allocs[a].mutable = mutable]
           p == c.memory.allocs[a].val
       IN IF p.t = "Ptr" /\ p.n \in DOMAIN c1.memory.allocs /\ ~c1.memory.allocs[p.n].static
          THEN mark_static_initalized(c1, p.n, mutable)
          ELSE c1

mark_inner_allocation(c, a, mutable) ==
  IF a \in DOMAIN c.memory.allocs /\ c.memory.allocs[a].static THEN c
  ELSE mark_static_initalized(c, a, mutable)

----------------------------------------------------------------------------
(* EvalContext (eval_context.rs) *)

SatSub(a, b) == IF a > b THEN a - b ELSE 0

\* EvalContext::new; the fields memory, globals and stack are references to
\* fresh objects; id, enq, parent and executed are ghost fields: the state's name,
\* its enqueue order, the state it was forked from and the steps it has executed
new_ecx(lim, r) ==
  [memory |-> r, globals |-> r, stack |-> r,
   stack_limit |-> lim.stack_limit, steps_remaining |-> lim.step_limit,
   id |-> 1, enq |-> 0, parent |-> 0, executed |-> 0]

inc_step_counter_and_check_limit(c, n) ==
  LET left == SatSub(c.ecx.steps_remaining, n) IN
  [c EXCEPT !.ecx.steps_remaining = left,
            !.err = IF left > 0 THEN @ ELSE "ExecutionTimeLimitReached"]

\* Lvalue::Ptr and Lvalue::Global
LvPtr(a) == [kind |-> "Ptr", n |-> a]

LvGlobal(cid) == [kind |-> "Global", n |-> cid]

\* a frame that keeps a slot for the return pointer as well
NewFrameWithReturnSlot(m, return_lvalue, cleanup) ==
  [block |-> 1, stmt |-> 0,
   locals |-> [i \in 1..m.local_decls_len |-> ByVal(Undef)],
   return_lvalue |-> return_lvalue,
   return_to_block |-> cleanup]

NewFrame(m, return_lvalue, cleanup) ==
  [block |-> 1, stmt |-> 0,
   locals |-> [i \in 1..(m.local_decls_len - 1) |-> ByVal(Undef)],
   return_lvalue |-> return_lvalue,
   return_to_block |-> cleanup]

CleanupNone == [kind |-> "None", target |-> 0]

CleanupGoto(b) == [kind |-> "Goto", target |-> b]

\* StackPopCleanup::MarkStatic(mutable); target 1 stands for mutable
CleanupMarkStatic(mutable) == [kind |-> "MarkStatic", target |-> IF mutable THEN 1 ELSE 0]

\* the frame is pushed and then counted against the limit with <  in place of <=
push_stack_frame_below_limit(c, m, return_lvalue, cleanup) ==
  LET c1 == [c EXCEPT !.stack = Append(@, NewFrame(m, return_lvalue, cleanup))] IN
  IF Len(c1.stack) >= c1.ecx.stack_limit
  THEN [c1 EXCEPT !.err = "StackFrameLimitReached"]
  ELSE c1

push_stack_frame(c, m, return_lvalue, cleanup) ==
  LET c1 == [c EXCEPT !.stack = Append(@, NewFrame(m, return_lvalue, cleanup))] IN
  IF Len(c1.stack) > c1.ecx.stack_limit
  THEN [c1 EXCEPT !.err = "StackFrameLimitReached"]
  ELSE c1

goto_block(stack, target) ==
  [stack EXCEPT ![Len(stack)].block = target, ![Len(stack)].stmt = 0]

frame(c) == c.stack[Len(c.stack)]

set_local(c, local, value) == [c EXCEPT !.stack[Len(c.stack)].locals[local] = value]

\* EvalContext::copy, Memory::copy of size bytes: undefined bytes and pointers
\* are copied as they are
copy(c, src, dest, size) ==
  IF size = 0 THEN c
  ELSE IF src \notin DOMAIN c.memory.allocs \/ dest \notin DOMAIN c.memory.allocs
       THEN [c EXCEPT !.err = "DanglingPointerDeref"]
  ELSE IF ~c.memory.allocs[dest].mutable THEN [c EXCEPT !.err = "ModifiedConstantMemory"]
  ELSE [c EXCEPT !.memory.allocs[dest].val = c.memory.allocs[src].val]

\* write_value_to_ptr of a value whose type has size bytes
write_value_to_ptr(c, value, a, size) ==
  IF value.tag = "ByRef" THEN copy(c, value.p1.n, a, size)
  ELSE write_primval_mem(c, a, value.p1, size)

\* a type, as far as the writes look at it: its size and whether try_read_value
\* reads it as a primitive
Ty(size, prim) == [size |-> size, prim |-> prim]

\* a one-byte integer
IntTy == Ty(1, TRUE)

\* try_read_value: <<v>> for Ok(Some(v)), <<>> for Ok(None) and for an error,
\* which the caller treats alike
try_read_value(c, a, ty) ==
  IF ty.prim /\ a \in DOMAIN c.memory.allocs /\ c.memory.allocs[a].val.t # "Undef"
  THEN <<ByVal(c.memory.allocs[a].val)>>
  ELSE <<>>

\* a write that overwrites the slot whatever it held
write_value_replacing_slot(c, src_val, old_dest_val, dest_ty) ==
  [c |-> c, dest |-> <<src_val>>]

\* a write that hands a by-reference source to the slot as it is
write_value_sharing(c, src_val, old_dest_val, dest_ty) ==
  IF old_dest_val.tag = "ByRef"
  THEN [c |-> write_value_to_ptr(c, src_val, old_dest_val.p1.n, dest_ty.size), dest |-> <<>>]
  ELSE [c |-> c, dest |-> <<src_val>>]

\* write_value_possibly_by_val: c is the context after the call and dest the
\* value handed to write_dest, <<>> when write_dest is not called
write_value_possibly_by_val(c, src_val, old_dest_val, dest_ty) ==
  IF old_dest_val.tag = "ByRef"
  THEN [c |-> write_value_to_ptr(c, src_val, old_dest_val.p1.n, dest_ty.size), dest |-> <<>>]
  ELSE IF src_val.tag = "ByRef"
  THEN LET v == try_read_value(c, src_val.p1.n, dest_ty) IN
       IF v # <<>> THEN [c |-> c, dest |-> v]
       ELSE LET c1 == allocate(c, dest_ty.size, Undef)
                c2 == copy(c1, src_val.p1.n, c1.last_alloc, dest_ty.size)
            IN [c |-> c2, dest |-> IF c2.err = "" THEN <<ByRef(c1.last_alloc)>> ELSE <<>>]
  ELSE [c |-> c, dest |-> <<src_val>>]

\* Lvalue::Local { frame, local }
LvLocal(f, local) == [kind |-> "Local", n |-> local, frame |-> f]

\* a write to a global that stores the value before it looks at the mutable flag
write_value_then_check(c, src_val, dest, dest_ty) ==
  CASE dest.kind = "Global" ->
         LET g == c.globals[dest.n]
             r == write_value_possibly_by_val(c, src_val, g.value, dest_ty)
             c1 == IF r.dest = <<>> THEN r.c
                   ELSE [r.c EXCEPT !.globals[dest.n] = [g EXCEPT !.value = r.dest[1]]]
         IN IF ~g.mutable THEN [c1 EXCEPT !.err = "ModifiedConstantMemory"] ELSE c1
    [] dest.kind = "Ptr" -> write_value_to_ptr(c, src_val, dest.n, dest_ty.size)
    [] dest.kind = "Local" ->
         LET r == write_value_possibly_by_val(c, src_val, c.stack[dest.frame].locals[dest.n],
                                              dest_ty) IN
         IF r.dest = <<>> THEN r.c
         ELSE [r.c EXCEPT !.stack[dest.frame].locals[dest.n] = r.dest[1]]

\* a write to a global that stores the value in a slot made anew
write_value_fresh_global(c, src_val, dest, dest_ty) ==
  CASE dest.kind = "Global" ->
         LET g == c.globals[dest.n] IN
         IF ~g.mutable THEN [c EXCEPT !.err = "ModifiedConstantMemory"]
         ELSE LET r == write_value_possibly_by_val(c, src_val, g.value, dest_ty) IN
              IF r.dest = <<>> THEN r.c
              ELSE [r.c EXCEPT !.globals[dest.n] =
                      [g EXCEPT !.value = r.dest[1], !.initialized = FALSE]]
    [] dest.kind = "Ptr" -> write_value_to_ptr(c, src_val, dest.n, dest_ty.size)
    [] dest.kind = "Local" ->
         LET r == write_value_possibly_by_val(c, src_val, c.stack[dest.frame].locals[dest.n],
                                              dest_ty) IN
         IF r.dest = <<>> THEN r.c
         ELSE [r.c EXCEPT !.stack[dest.frame].locals[dest.n] = r.dest[1]]

\* write_value
write_value(c, src_val, dest, dest_ty) ==
  CASE dest.kind = "Global" ->
         LET g == c.globals[dest.n] IN
         IF ~g.mutable THEN [c EXCEPT !.err = "ModifiedConstantMemory"]
         ELSE LET r == write_value_possibly_by_val(c, src_val, g.value, dest_ty) IN
              IF r.dest = <<>> THEN r.c
              ELSE [r.c EXCEPT !.globals[dest.n] = [g EXCEPT !.value = r.dest[1]]]
    [] dest.kind = "Ptr" -> write_value_to_ptr(c, src_val, dest.n, dest_ty.size)
    [] dest.kind = "Local" ->
         LET r == write_value_possibly_by_val(c, src_val, c.stack[dest.frame].locals[dest.n],
                                              dest_ty) IN
         IF r.dest = <<>> THEN r.c
         ELSE [r.c EXCEPT !.stack[dest.frame].locals[dest.n] = r.dest[1]]

\* write_value of a one-byte integer to Lvalue::Local of the current frame
write_value_local(c, local, src_val) ==
  IF c.err # "" THEN c ELSE write_value(c, src_val, LvLocal(Len(c.stack), local), IntTy)

\* write_value of a one-byte integer to Lvalue::Global
write_value_global(c, cid, src_val) ==
  IF c.err # "" THEN c ELSE write_value(c, src_val, LvGlobal(cid), IntTy)

\* modify_global(cid, f) with f storing v
modify_global(c, cid, v) ==
  IF ~c.globals[cid].mutable THEN [c EXCEPT !.err = "ModifiedConstantMemory"]
  ELSE [c EXCEPT !.globals[cid].value = v]

\* write_value_possibly_by_val of a by-reference source that cannot be read as
\* a primitive into a by-value local: the local gets an allocation of its own
write_value_local_by_ref(c, local) ==
  LET old == frame(c).locals[local] IN
  IF old.tag = "ByRef" THEN [c EXCEPT !.last_alloc = old.p1.n]
  ELSE LET c1 == allocate(c, 1, Undef) IN set_local(c1, local, ByRef(c1.last_alloc))

\* force_allocation on Lvalue::Local; c.last_alloc is the pointer of the result
\* of a local whose type has size bytes
force_allocation_local(c, local, size) ==
  LET val == frame(c).locals[local] IN
  IF c.err # "" THEN c
  ELSE IF val.tag = "ByRef" THEN [c EXCEPT !.last_alloc = val.p1.n]
  ELSE LET c1 == allocate(c, size, Undef)
           c2 == set_local(c1, local, ByRef(c1.last_alloc))
       IN write_value_to_ptr(c2, val, c1.last_alloc, size)

\* assign_fields to a local: nothing for a zero-sized destination, otherwise the
\* one operand of a primitive destination is written
assign_fields(c, local, size, v) ==
  IF size = 0 THEN c ELSE write_value_local(c, local, v)

\* a teardown that returns DeallocatedStaticMemory like any other error
RECURSIVE dealloc_locals_stop_at_static(_, _, _)
dealloc_locals_stop_at_static(c, locals, i) ==
  IF i > Len(locals) THEN c
  ELSE IF locals[i].tag # "ByRef" THEN dealloc_locals_stop_at_static(c, locals, i + 1)
  ELSE LET c1 == deallocate(c, locals[i].p1.n) IN
       IF c1.err = "" THEN dealloc_locals_stop_at_static(c1, locals, i + 1) ELSE c1

RECURSIVE dealloc_locals(_, _, _)
dealloc_locals(c, locals, i) ==
  IF i > Len(locals) THEN c
  ELSE IF locals[i].tag # "ByRef" THEN dealloc_locals(c, locals, i + 1)
  ELSE LET c1 == deallocate(c, locals[i].p1.n) IN
       IF c1.err = "" THEN dealloc_locals(c1, locals, i + 1)
       ELSE IF c1.err = "DeallocatedStaticMemory"
            THEN dealloc_locals([c1 EXCEPT !.err = ""], locals, i + 1)
       ELSE c1

\* a cleanup that initializes the global and leaves it writable whatever the flag
mark_static_cleanup_writable(c, cid, mutable) ==
  [c EXCEPT !.globals[cid].initialized = TRUE]

\* assert!(!global_value.initialized) and assert!(global_value.mutable)
AssertionFailed == "panic: assertion failed"

\* StackPopCleanup::MarkStatic(mutable) on the global cid
mark_static_cleanup(c, cid, mutable) ==
  LET v == c.globals[cid].value
      c1 == IF v.tag = "ByRef" THEN mark_static_initalized(c, v.p1.n, mutable)
            ELSE IF v.p1.t = "Ptr" THEN mark_inner_allocation(c, v.p1.n, mutable)
            ELSE c
      c2 == IF c1.err = "" /\ v.tag = "ByValPair" /\ v.p2.t = "Ptr"
            THEN mark_inner_allocation(c1, v.p2.n, mutable)
            ELSE c1
  IN IF c2.err # "" THEN c2
     ELSE IF c.globals[cid].initialized \/ ~c.globals[cid].mutable
          THEN [c2 EXCEPT !.err = AssertionFailed]
     ELSE [c2 EXCEPT !.globals[cid].initialized = TRUE, !.globals[cid].mutable = mutable]

\* a pop that leaves the allocations of the frame's locals alone
pop_stack_frame_keep_locals(c) ==
  LET fr == frame(c)
      c1 == [c EXCEPT !.stack = SubSeq(@, 1, Len(@) - 1)]
  IN IF fr.return_to_block.kind = "Goto"
     THEN [c1 EXCEPT !.stack = goto_block(@, fr.return_to_block.target)]
     ELSE c1

\* a pop that leaves the caller where it was whatever the cleanup
pop_stack_frame_no_jump(c) ==
  dealloc_locals([c EXCEPT !.stack = SubSeq(@, 1, Len(@) - 1)], frame(c).locals, 1)

pop_stack_frame(c) ==
  LET fr == frame(c)
      c1 == [c EXCEPT !.stack = SubSeq(@, 1, Len(@) - 1)]
      c2 == CASE fr.return_to_block.kind = "Goto" ->
                   [c1 EXCEPT !.stack = goto_block(@, fr.return_to_block.target)]
              [] fr.return_to_block.kind = "MarkStatic" ->
                   mark_static_cleanup(c1, fr.return_lvalue.n, fr.return_to_block.target = 1)
              [] OTHER -> c1
  IN IF c2.err # "" THEN c2 ELSE dealloc_locals(c2, fr.locals, 1)

----------------------------------------------------------------------------
(* Statements (eval_rvalue_into_lvalue) *)

\* Rvalue::Aggregate charging the operands of a zero-sized destination too
eval_aggregate_charge_zst(c, st) ==
  LET c1 == inc_step_counter_and_check_limit(c, st.n) IN
  IF st.z THEN c1 ELSE write_value_local(c1, st.l, ByVal(Bytes(st.n)))

\* an aggregate assignment that writes whatever the size of the destination
eval_aggregate_write_zst(c, st) ==
  write_value_local(inc_step_counter_and_check_limit(c, st.n), st.l, ByVal(Bytes(st.n)))

\* Rvalue::Aggregate: a zero-sized destination is matched first and does nothing
eval_aggregate(c, st) ==
  IF st.z THEN c
  ELSE write_value_local(inc_step_counter_and_check_limit(c, st.n), st.l, ByVal(Bytes(st.n)))

\* Rvalue::Repeat: charged per element, then written through force_allocation
eval_repeat(c, st) ==
  LET c1 == inc_step_counter_and_check_limit(c, st.n)
      c2 == force_allocation_local(c1, st.l, 1)
  IN IF c2.err # "" THEN c2 ELSE write_primval_mem(c2, c2.last_alloc, Bytes(0), 1)

\* Rvalue::Ref: the address of the local src, of a type of size bytes, is
\* written to the local dest
eval_ref(c, src, dest, size) ==
  LET c1 == force_allocation_local(c, src, size) IN
  IF c1.err # "" THEN c1 ELSE write_value_local(c1, dest, ByVal(Ptr(c1.last_alloc)))

\* Rvalue::NullaryOp(Box): alloc_ptr, then the pointer is written to the destination
eval_box(c, st) ==
  LET c1 == allocate(c, 1, Undef) IN write_value_local(c1, st.l, ByVal(Ptr(c1.last_alloc)))

\* *local = n, through the pointer the local holds
eval_store_ptr(c, st) ==
  LET v == frame(c).locals[st.l] IN
  IF v.p1.t # "Ptr" THEN [c EXCEPT !.err = "ReadUndefBytes"]
  ELSE write_primval_mem(c, v.p1.n, Bytes(st.n), 1)

\* Global::uninitialized: the slot of a global that is cached and not yet evaluated
Uninitialized == [value |-> ByVal(Undef), mutable |-> TRUE, initialized |-> FALSE, ty |-> IntTy]

\* a write to the global st.l, which is cached on first use as a mutable global
eval_static(c, st) ==
  LET c1 == IF st.l \in DOMAIN c.globals THEN c
            ELSE [c EXCEPT !.globals = @ @@ (st.l :> Uninitialized)]
  IN write_value_global(c1, st.l, ByVal(Bytes(st.n)))

eval_statement(c, st) ==
  CASE st.k = "Use" -> write_value_local(c, st.l, ByVal(Bytes(st.n)))
    [] st.k = "Aggregate" -> eval_aggregate(c, st)
    [] st.k = "Repeat" -> eval_repeat(c, st)
    [] st.k = "Box" -> eval_box(c, st)
    [] st.k = "StorePtr" -> eval_store_ptr(c, st)
    [] st.k = "Static" -> eval_static(c, st)
    [] OTHER -> c

----------------------------------------------------------------------------
(* Terminators and step() (specification 4.6) *)

Successor(block, constraints) == [block |-> block, constraints |-> constraints]

\* index of the target a concrete discriminant selects; the last is the otherwise arm
SwitchTarget(t, v) ==
  IF \E i \in DOMAIN t.values : t.values[i] = v
  THEN t.targets[CHOOSE i \in DOMAIN t.values : t.values[i] = v]
  ELSE t.targets[Len(t.targets)]

\* one successor per target: discr == value_i, and all discr # value_i for the otherwise arm
SwitchSuccessors(t) ==
  [i \in 1..Len(t.targets) |->
     IF i <= Len(t.values)
     THEN Successor(t.targets[i], <<Constraint(t.discr, "eq", t.values[i])>>)
     ELSE Successor(t.targets[i],
                    [j \in 1..Len(t.values) |-> Constraint(t.discr, "ne", t.values[j])])]

SelectSucc(succs, Test(_)) == SelectSeq(succs, Test)

\* the successors the oracle reports feasible; an oracle that does not answer reports none
FeasibleSuccessors(c, succs, answers) ==
  LET Test(sc) == answers /\ feasible(c.memory.constraints \o sc.constraints) IN
  SelectSucc(succs, Test)

eval_terminator(c, t, answers) ==
  CASE t.k = "Goto" ->
         [c EXCEPT !.tag = "fork", !.branches = <<Successor(t.targets[1], <<>>)>>]
    [] t.k = "SwitchInt" /\ t.discr.kind = "const" ->
         [c EXCEPT !.stack = goto_block(@, SwitchTarget(t, t.discr.c))]
    [] t.k = "SwitchInt" /\ t.discr.kind # "const" ->
         [c EXCEPT !.tag = "fork",
                   !.branches = FeasibleSuccessors(c, SwitchSuccessors(t), answers)]
    [] t.k = "Assert" ->
         IF t.discr.c = t.values[1]
         THEN [c EXCEPT !.stack = goto_block(@, t.targets[1])]
         ELSE [c EXCEPT !.err = "Panic"]
    [] t.k = "Return" -> pop_stack_frame(c)
    [] OTHER -> [c EXCEPT !.err = "Panic"]

Outcome(c) == IF c.err # "" THEN [c EXCEPT !.tag = "err"] ELSE c

\* one step: charge the budget, then halt on an empty stack, else run one
\* statement or the terminator of the current block
step(c0, m, answers) ==
  LET c == inc_step_counter_and_check_limit(c0, 1) IN
  IF c.err # "" THEN Outcome(c)
  ELSE IF c.stack = <<>> THEN [c EXCEPT !.tag = "halt"]
  ELSE LET fr == frame(c)
           blk == m.basic_blocks[fr.block]
       IN IF fr.stmt < Len(blk.statements)
          THEN LET st == blk.statements[fr.stmt + 1]
                   c1 == eval_statement([c EXCEPT !.op = st], st)
               IN IF c1.err # "" THEN Outcome(c1)
                  ELSE [c1 EXCEPT !.stack[Len(c1.stack)].stmt = @ + 1]
          ELSE Outcome(eval_terminator(
                 [c EXCEPT !.op = Stmt(blk.terminator.k, 0, 0, FALSE)],
                 blk.terminator, answers))

----------------------------------------------------------------------------
(* The executor (executor.rs) *)

Heap == [mems |-> mems, globs |-> globs, stacks |-> stacks]

\* the evaluation context of the EvalContext e over the heap h
Ctx(h, e) ==
  [ecx |-> e, memory |-> h.mems[e.memory], globals |-> h.globs[e.globals],
   stack |-> h.stacks[e.stack], next_id |-> next_alloc_id, issued |-> <<>>,
   last_alloc |-> 0, err |-> "", tag |-> "cont", branches |-> <<>>,
   op |-> Stmt("none", 0, 0, FALSE)]

\* the heap after the objects of c.ecx took the values the step left in c
Store(h, c) ==
  [mems |-> [h.mems EXCEPT ![c.ecx.memory] = c.memory],
   globs |-> [h.globs EXCEPT ![c.ecx.globals] = c.globals],
   stacks |-> [h.stacks EXCEPT ![c.ecx.stack] = c.stack]]

\* objects no queued EvalContext refers to are dropped
Live(h, q) ==
  [mems |-> [r \in {q[i].memory : i \in DOMAIN q} |-> h.mems[r]],
   globs |-> [r \in {q[i].globals : i \in DOMAIN q} |-> h.globs[r]],
   stacks |-> [r \in {q[i].stack : i \in DOMAIN q} |-> h.stacks[r]]]

\* a clone that shares the call stack with the original
clone_sharing_stack(h, e, r) ==
  [ecx |-> [e EXCEPT !.memory = r, !.globals = r],
   heap |-> [mems |-> h.mems @@ (r :> h.mems[e.memory]),
             globs |-> h.globs @@ (r :> h.globs[e.globals]),
             stacks |-> h.stacks]]

\* a clone that shares the memory (and its constraint store) with the original
clone_sharing_memory(h, e, r) ==
  [ecx |-> [e EXCEPT !.globals = r, !.stack = r],
   heap |-> [mems |-> h.mems,
             globs |-> h.globs @@ (r :> h.globs[e.globals]),
             stacks |-> h.stacks @@ (r :> h.stacks[e.stack])]]

\* a clone that shares the remaining budget out between the original and itself
clone_halving_budget(h, e, r) ==
  [ecx |-> [e EXCEPT !.memory = r, !.globals = r, !.stack = r,
                     !.steps_remaining = @ \div 2],
   heap |-> [mems |-> h.mems @@ (r :> h.mems[e.memory]),
             globs |-> h.globs @@ (r :> h.globs[e.globals]),
             stacks |-> h.stacks @@ (r :> h.stacks[e.stack])]]

\* EvalContext::clone: memory, globals and stack are cloned into the fresh
\* objects r, stack_limit and steps_remaining are copied
clone(h, e, r) ==
  [ecx |-> [e EXCEPT !.memory = r, !.globals = r, !.stack = r],
   heap |-> [mems |-> h.mems @@ (r :> h.mems[e.memory]),
             globs |-> h.globs @@ (r :> h.globs[e.globals]),
             stacks |-> h.stacks @@ (r :> h.stacks[e.stack])]]

push_front(q, e) == <<e>> \o q

push_eval_context(q, e) == Append(q, e)

pop_eval_context(q) == [ecx |-> Head(q), queue |-> Tail(q)]

\* the signature test of eval_main that only rejects three or more arguments
rejects_three_args(m) == ~m.return_ty_nil \/ m.arg_count > 2

\* eval_main's first test: a non-unit return type or more than one argument
rejects(m) == ~m.return_ty_nil \/ m.arg_count > 1

\* eval_main's second test: the single argument is a reference to a slice of u8
is_u8_slice_ref(m) == m.arg_ty = "&[u8]"

\* the loop pushing only the first constraint of the successor
push_first_constraint(h, cx, b, j) ==
  IF b.constraints = <<>> THEN h
  ELSE [h EXCEPT !.mems[cx.memory] = push_constraint(@, b.constraints[1]),
                 !.stacks[cx.stack] = goto_block(@, b.block)]

\* for constraint in constraints { push_constraint(constraint); goto_block(block) }
RECURSIVE push_constraints(_, _, _, _)
push_constraints(h, cx, b, j) ==
  IF j > Len(b.constraints) THEN h
  ELSE push_constraints(
         [h EXCEPT !.mems[cx.memory] = push_constraint(@, b.constraints[j]),
                   !.stacks[cx.stack] = goto_block(@, b.block)],
         cx, b, j + 1)

\* for (mut cx, (block, constraints)) in repeat(ecx).zip(branches) { ...; push(cx) }
\* S carries the heap, the queue and the ghost counters through the iterations
RECURSIVE fork_loop(_, _, _, _)
fork_loop(S, e, branches, i) ==
  IF i > Len(branches) THEN S
  ELSE LET cl == clone(S.heap, e, S.next_ref)
           cx == [cl.ecx EXCEPT !.id = S.next_sid, !.enq = S.next_enq, !.parent = e.id]
           h1 == push_constraints(cl.heap, cx, branches[i], 1)
       IN fork_loop([S EXCEPT !.heap = h1,
                              !.queue = push_eval_context(@, cx),
                              !.next_ref = @ + 1,
                              !.next_sid = @ + 1,
                              !.next_enq = @ + 1,
                              !.children = Append(@, cx)],
                    e, branches, i + 1)

----------------------------------------------------------------------------
(* eval_main *)

Init ==
  /\ pc = "start"
  /\ mir \in Programs \cup BadSignatures
  /\ limits \in [step_limit : 0..MaxStepLimit, stack_limit : {0, DefaultStackLimit}]
  /\ queue = <<>>
  /\ mems = <<>>
  /\ globs = <<>>
  /\ stacks = <<>>
  /\ next_ref = 1
  /\ next_alloc_id = 1
  /\ ptr = <<>>
  /\ hist = [enqueued |-> {}, stepped |-> {}, log |-> <<>>, steps |-> 0,
             next_sid |-> 2, next_enq |-> 1, issued |-> <<>>, results |-> <<>>,
             forks |-> 0,
             lastFork |-> [parent |-> 0, pre |-> <<>>, branches |-> <<>>, children |-> <<>>,
                           added |-> 0, steps_remaining |-> 0, stack_limit |-> 0],
             lastStep |-> [id |-> 0, op |-> Stmt("none", 0, 0, FALSE), before |-> 0,
                           after |-> 0, tag |-> "", err |-> ""]]

\* EvalContext::new followed by push_stack_frame of the entry function
Setup ==
  push_stack_frame(
    [ecx |-> new_ecx(limits, next_ref), memory |-> NewMemory, globals |-> <<>>,
     stack |-> <<>>, next_id |-> next_alloc_id, issued |-> <<>>, last_alloc |-> 0,
     err |-> "", tag |-> "cont", branches |-> <<>>, op |-> Stmt("none", 0, 0, FALSE)],
    mir, LvPtr(ZstAllocId), CleanupNone)

\* the abstract input of length 21, written to the first argument as a fat pointer
SetupInput(c) ==
  LET c1 == allocate(c, InputLen, [t |-> "Abstract", n |-> 0]) IN
  write_value_local(c1, 1, ByValPair(Ptr(c1.last_alloc), Bytes(InputLen)))

Issued(c, e) == [i \in DOMAIN c.issued |-> [a |-> c.issued[i], by |-> e.id, parent |-> e.parent]]

EvalMainReject ==
  /\ pc = "start"
  /\ rejects(mir)
  /\ pc' = "returned"
  /\ UNCHANGED <<mir, limits, queue, mems, globs, stacks, next_ref, next_alloc_id, ptr, hist>>

EvalMainFrameLimit ==
  /\ pc = "start"
  /\ ~rejects(mir)
  /\ Setup.err # ""
  /\ pc' = "panicked"
  /\ UNCHANGED <<mir, limits, queue, mems, globs, stacks, next_ref, next_alloc_id, ptr, hist>>

EvalMainBadArg ==
  /\ pc = "start"
  /\ ~rejects(mir)
  /\ Setup.err = ""
  /\ mir.arg_count = 1
  /\ ~is_u8_slice_ref(mir)
  /\ pc' = "panicked"
  /\ UNCHANGED <<mir, limits, queue, mems, globs, stacks, next_ref, next_alloc_id, ptr, hist>>

EvalMainEnqueue ==
  /\ pc = "start"
  /\ ~rejects(mir)
  /\ Setup.err = ""
  /\ mir.arg_count = 1 => is_u8_slice_ref(mir)
  /\ LET c == IF mir.arg_count = 1 THEN SetupInput(Setup) ELSE Setup
         e == [c.ecx EXCEPT !.enq = hist.next_enq]
     IN /\ queue' = push_eval_context(queue, e)
        /\ mems' = (e.memory :> c.memory)
        /\ globs' = (e.globals :> c.globals)
        /\ stacks' = (e.stack :> c.stack)
        /\ next_ref' = next_ref + 1
        /\ next_alloc_id' = c.next_id
        /\ ptr' = IF mir.arg_count = 1 THEN <<c.last_alloc>> ELSE <<>>
        /\ hist' = [hist EXCEPT !.enqueued = @ \cup {e.id},
                                !.next_enq = @ + 1,
                                !.issued = @ \o Issued(c, e)]
  /\ pc' = "loop"
  /\ UNCHANGED <<mir, limits>>

----------------------------------------------------------------------------
(* The loop of eval_main: while let Some(mut ecx) = self.pop_eval_context() *)

Popped == pop_eval_context(queue)

\* the result of ecx.step() on the popped state
Stepped(answers) == step(Ctx(Heap, Popped.ecx), mir, answers)

Executed(r) == IF r.op.k = "none" THEN 0 ELSE 1

\* the popped state as the step left it
After(r) == [r.ecx EXCEPT !.executed = @ + Executed(r)]

Ids(q) == {q[i].id : i \in DOMAIN q}

\* the history after a step of the popped state with result r
HistStep(r) ==
  [hist EXCEPT !.stepped = @ \cup {Popped.ecx.id},
               !.steps = @ + 1,
               !.log = Append(@, [id |-> Popped.ecx.id, waiting |-> Ids(Popped.queue)]),
               !.issued = @ \o Issued(r, Popped.ecx),
               !.lastStep = [id |-> Popped.ecx.id, op |-> r.op,
                             before |-> Popped.ecx.steps_remaining,
                             after |-> r.ecx.steps_remaining,
                             tag |-> r.tag, err |-> r.err]]

\* live is a ghost: the allocations the state held when its step returned
Result(r, leaks) ==
  [id |-> r.ecx.id, tag |-> r.tag, err |-> r.err,
   constraints |-> r.memory.constraints, leaks |-> leaks,
   live |-> DOMAIN r.memory.allocs]

ChildView(h, cx) ==
  [id |-> cx.id, constraints |-> h.mems[cx.memory].constraints,
   steps_remaining |-> cx.steps_remaining, stack_limit |-> cx.stack_limit,
   block |-> h.stacks[cx.stack][Len(h.stacks[cx.stack])].block,
   stmt |-> h.stacks[cx.stack][Len(h.stacks[cx.stack])].stmt]

\* Ok((true, None)) => self.push_eval_context(ecx)
LoopContinue ==
  /\ pc = "loop"
  /\ queue # <<>>
  /\ \E answers \in BOOLEAN :
       \E r \in {Stepped(answers)} :
       LET e == [After(r) EXCEPT !.enq = hist.next_enq]
           q == push_eval_context(Popped.queue, e)
           h == Live(Store(Heap, r), q)
       IN /\ r.tag = "cont"
          /\ queue' = q
          /\ mems' = h.mems
          /\ globs' = h.globs
          /\ stacks' = h.stacks
          /\ next_alloc_id' = r.next_id
          /\ hist' = [HistStep(r) EXCEPT !.next_enq = @ + 1]
  /\ UNCHANGED <<pc, mir, limits, next_ref, ptr>>

\* Ok((true, Some(branches))) with branches non-empty: one clone per successor
LoopFork ==
  /\ pc = "loop"
  /\ queue # <<>>
  /\ \E answers \in BOOLEAN :
       \E r \in {Stepped(answers)} :
       LET S0 == [heap |-> Store(Heap, r), queue |-> Popped.queue, next_ref |-> next_ref,
                  next_sid |-> hist.next_sid, next_enq |-> hist.next_enq,
                  children |-> <<>>]
           S == fork_loop(S0, After(r), r.branches, 1)
           h == Live(S.heap, S.queue)
       IN /\ r.tag = "fork"
          /\ r.branches # <<>>
          /\ queue' = S.queue
          /\ mems' = h.mems
          /\ globs' = h.globs
          /\ stacks' = h.stacks
          /\ next_ref' = S.next_ref
          /\ next_alloc_id' = r.next_id
          /\ hist' = [HistStep(r) EXCEPT
                        !.next_sid = S.next_sid,
                        !.next_enq = S.next_enq,
                        !.enqueued = @ \cup Ids(S.children),
                        !.forks = @ + 1,
                        !.lastFork =
                          [parent |-> r.ecx.id, pre |-> r.memory.constraints,
                           branches |-> r.branches,
                           children |-> [i \in DOMAIN S.children |->
                                           ChildView(S.heap, S.children[i])],
                           added |-> Len(S.queue) - Len(Popped.queue),
                           steps_remaining |-> r.ecx.steps_remaining,
                           stack_limit |-> r.ecx.stack_limit]]
  /\ UNCHANGED <<pc, mir, limits, ptr>>

\* Ok((true, Some(branches))) with branches empty: unimplemented!() panics
LoopEmptyFork ==
  /\ pc = "loop"
  /\ queue # <<>>
  /\ \E answers \in BOOLEAN :
       \E r \in {Stepped(answers)} :
       LET h == Live(Store(Heap, r), Popped.queue)
       IN /\ r.tag = "fork"
          /\ r.branches = <<>>
          /\ queue' = Popped.queue
          /\ mems' = h.mems
          /\ globs' = h.globs
          /\ stacks' = h.stacks
          /\ next_alloc_id' = r.next_id
          /\ hist' = HistStep(r)
  /\ pc' = "panicked"
  /\ UNCHANGED <<mir, limits, next_ref, ptr>>

\* ptr.map(|p| ecx.memory.deallocate(p).unwrap()) that leaves the input allocated
deallocate_input_skipped(r, p) == r

\* ptr.map(|p| ecx.memory.deallocate(p).unwrap())
deallocate_input(r, p) == IF p # <<>> THEN deallocate(r, p[1]) ELSE r

\* Ok((false, _)): the input is deallocated (unwrap) and leaks are reported
LoopHalt ==
  /\ pc = "loop"
  /\ queue # <<>>
  /\ \E answers \in BOOLEAN :
       \E r \in {Stepped(answers)} :
       LET d == deallocate_input(r, ptr)
           h == Live(Store(Heap, d), Popped.queue)
       IN /\ r.tag = "halt"
          /\ queue' = Popped.queue
          /\ mems' = h.mems
          /\ globs' = h.globs
          /\ stacks' = h.stacks
          /\ next_alloc_id' = r.next_id
          /\ pc' = IF d.err # "" THEN "panicked" ELSE pc
          /\ hist' = IF d.err # "" THEN HistStep(r)
                     ELSE [HistStep(r) EXCEPT
                             !.results = Append(@, Result(r, leak_report(d.memory)))]
  /\ UNCHANGED <<mir, limits, next_ref, ptr>>

\* Err(e): the error is printed and the loop goes on
LoopErr ==
  /\ pc = "loop"
  /\ queue # <<>>
  /\ \E answers \in BOOLEAN :
       \E r \in {Stepped(answers)} :
       LET h == Live(Store(Heap, r), Popped.queue)
       IN /\ r.tag = "err"
          /\ queue' = Popped.queue
          /\ mems' = h.mems
          /\ globs' = h.globs
          /\ stacks' = h.stacks
          /\ next_alloc_id' = r.next_id
          /\ hist' = [HistStep(r) EXCEPT !.results = Append(@, Result(r, 0))]
  /\ UNCHANGED <<pc, mir, limits, next_ref, ptr>>

\* pop_eval_context returns None: the loop ends
LoopExit ==
  /\ pc = "loop"
  /\ queue = <<>>
  /\ pc' = "done"
  /\ UNCHANGED <<mir, limits, queue, mems, globs, stacks, next_ref, next_alloc_id, ptr, hist>>

Next ==
  \/ EvalMainReject
  \/ EvalMainFrameLimit
  \/ EvalMainBadArg
  \/ EvalMainEnqueue
  \/ LoopContinue
  \/ LoopFork
  \/ LoopEmptyFork
  \/ LoopHalt
  \/ LoopErr
  \/ LoopExit

Spec == Init /\ [][Next]_vars

----------------------------------------------------------------------------
(* Properties *)

Stopped == pc \in {"done", "returned", "panicked"}

Pushed(i) ==
  SubSeq(hist.lastFork.children[i].constraints, Len(hist.lastFork.pre) + 1,
         Len(hist.lastFork.children[i].constraints))

\* C1: a fork with n successors adds exactly n states to the queue, and every
\* state that was enqueued is popped and stepped before the executor stops.
C1_EveryEnqueuedStepped ==
  /\ hist.forks > 0 => hist.lastFork.added = Len(hist.lastFork.branches)
  /\ Stopped => hist.enqueued \subseteq hist.stepped

\* C2: every clone enqueued by a fork holds the parent's constraints followed by
\* its successor's constraints, in order, and stands at the start of the
\* successor's target block -- the successor with no constraints included.
C2_ClonePushedAndRedirected ==
  hist.forks > 0 =>
    \A i \in DOMAIN hist.lastFork.children :
      /\ hist.lastFork.children[i].constraints =
           hist.lastFork.pre \o hist.lastFork.branches[i].constraints
      /\ hist.lastFork.children[i].block = hist.lastFork.branches[i].block
      /\ hist.lastFork.children[i].stmt = 0

\* C3: whatever the outcome of a step (error, halt, fork without a feasible
\* successor), the executor does not stop while states are still queued.
C3_NoOutcomeStopsExploration == Stopped => queue = <<>>

View(h, e) ==
  [memory |-> h.mems[e.memory], globals |-> h.globs[e.globals], stack |-> h.stacks[e.stack],
   stack_limit |-> e.stack_limit, steps_remaining |-> e.steps_remaining]

\* C4: a step of the state at the head of the queue leaves every other queued
\* state in the queue with its memory, constraint store, globals, stack frames,
\* locals and budget unchanged.
C4_ForkedStatesIndependent ==
  [][ pc = "loop" /\ queue # <<>> =>
        \A i \in 2..Len(queue) :
          \E j \in DOMAIN queue' :
            /\ queue'[j] = queue[i]
            /\ View(Heap', queue'[j]) = View(Heap, queue[i]) ]_vars

\* a forked state changed its memory, globals or stack by a step while a
\* sibling of the same fork was waiting in the queue
C4_Witness ==
  /\ hist.steps > 0
  /\ hist.lastStep.op.k \in {"Box", "StorePtr", "Static", "Return"}
  /\ \E j \in DOMAIN queue :
       /\ queue[j].id # hist.lastStep.id
       /\ queue[j].id \in hist.log[Len(hist.log)].waiting
       /\ queue[j].parent # 0
       /\ \E k \in DOMAIN queue :
            queue[k].id = hist.lastStep.id /\ queue[k].parent = queue[j].parent

C6_ForkSound ==
  hist.forks > 0 =>
    /\ \A i, j \in DOMAIN hist.lastFork.children :
         i # j => ~\E x \in 0..U8Max : Satisfies(Pushed(i), x) /\ Satisfies(Pushed(j), x)
    /\ \A x \in 0..U8Max :
         Satisfies(hist.lastFork.pre, x) =>
           \E i \in DOMAIN hist.lastFork.children :
             Satisfies(hist.lastFork.children[i].constraints, x)

\* a fork on a symbolic condition that dropped an infeasible successor and kept
\* an otherwise arm with several constraints
C6_Witness ==
  /\ hist.forks > 1
  /\ hist.lastFork.pre # <<>>
  /\ Len(hist.lastFork.children) = 2
  /\ \E i \in DOMAIN hist.lastFork.children : Len(Pushed(i)) > 1

Only42(cs) == \A x \in 0..U8Max : Satisfies(cs, x) <=> x = 42

Not42(cs) == \A x \in 0..U8Max : Satisfies(cs, x) <=> x # 42

OutOfBudget == \E i \in DOMAIN hist.results : hist.results[i].err = "ExecutionTimeLimitReached"

Branch42Outcome ==
  /\ pc = "done"
  /\ Len(hist.results) = 2
  /\ \E i, j \in DOMAIN hist.results :
       /\ hist.results[i].tag = "err"
       /\ hist.results[i].err = "Panic"
       /\ Only42(hist.results[i].constraints)
       /\ hist.results[j].tag = "halt"
       /\ hist.results[j].leaks = 0
       /\ Not42(hist.results[j].constraints)
       /\ {hist.results[i].id, hist.results[j].id} =
            {hist.lastFork.children[k].id : k \in DOMAIN hist.lastFork.children}

\* C7: for `if input[0] == 42 { panic!() } else { () }` the branch enqueues
\* exactly two states, one constrained to input[0] == 42 and one to
\* input[0] # 42, and when the executor stops both have been processed: the
\* first ended in Panic and the second halted without a leak (unless the step
\* budget is too small for the program and a state ran out of it).
C7_Branch42EndToEnd ==
  mir = Branch42 /\ hist.forks > 0 =>
    /\ hist.forks = 1
    /\ hist.lastFork.added = 2
    /\ \E i, j \in DOMAIN hist.lastFork.children :
         /\ Only42(hist.lastFork.children[i].constraints)
         /\ Not42(hist.lastFork.children[j].constraints)
    /\ Stopped => OutOfBudget \/ Branch42Outcome

C7_Witness == mir = Branch42 /\ Branch42Outcome /\ ~OutOfBudget

ExactlyOnce(w, i, j) ==
  Cardinality({k \in (i + 1)..(j - 1) : hist.log[k].id = w}) = 1

\* C8: the queue is ordered by waiting time with the longest-waiting state at
\* the head, and between two consecutive steps of one state every state that
\* was queued at the first of them is stepped exactly once.
C8_Fifo ==
  /\ \A i, j \in DOMAIN queue : i < j => queue[i].enq < queue[j].enq
  /\ \A i, j \in DOMAIN hist.log :
       ( /\ i < j
         /\ hist.log[i].id = hist.log[j].id
         /\ \A k \in (i + 1)..(j - 1) : hist.log[k].id # hist.log[i].id )
       => \A w \in hist.log[i].waiting : ExactlyOnce(w, i, j)

\* a state was stepped twice and other states were queued at its first step
C8_Witness ==
  \E i, j \in DOMAIN hist.log :
    /\ i < j
    /\ hist.log[i].id = hist.log[j].id
    /\ Cardinality(hist.log[i].waiting) > 1

BadSignature(m) ==
  \/ ~m.return_ty_nil
  \/ m.arg_count > 1
  \/ m.arg_count = 1 /\ m.arg_ty # "&[u8]"

Charge(op) == IF op.k = "Repeat" \/ (op.k = "Aggregate" /\ ~op.z) THEN 1 + op.n ELSE 1

ChargeEveryAggregate(op) == IF op.k \in {"Repeat", "Aggregate"} THEN 1 + op.n ELSE 1

Budget(charge(_)) ==
  /\ pc = "loop" /\ hist.steps = 0 => queue[1].steps_remaining = limits.step_limit
  /\ \A i \in DOMAIN queue :
       queue[i].executed + queue[i].steps_remaining <= limits.step_limit
  /\ hist.steps > 0 =>
       /\ hist.lastStep.after <= hist.lastStep.before
       /\ hist.lastStep.op.k # "none" /\ hist.lastStep.err # "ExecutionTimeLimitReached" =>
            /\ hist.lastStep.after < hist.lastStep.before
            /\ hist.lastStep.after = hist.lastStep.before - charge(hist.lastStep.op)
       /\ hist.lastStep.after = 0 => hist.lastStep.err = "ExecutionTimeLimitReached"

\* C10 (as stated): steps_remaining starts at step_limit, never increases, goes
\* down by one for every statement and terminator executed and by one more per
\* operand of every aggregate and per element of every array repeat; at zero
\* the state fails with ExecutionTimeLimitReached.
C10_Original == Budget(ChargeEveryAggregate)

\* C10 (amended): as above, but only aggregates whose destination type is not
\* zero-sized are charged per operand; an aggregate of zero size costs one unit.
C10_Budget == Budget(Charge)

\* an aggregate with operands and a destination of zero size has been executed
C10_Witness ==
  /\ hist.steps > 0
  /\ hist.lastStep.op.k = "Aggregate"
  /\ hist.lastStep.op.z
  /\ hist.lastStep.op.n > 0
  /\ hist.lastStep.after = hist.lastStep.before - 1


----------------------------------------------------------------------------
(* Frames, locals and globals (eval_context.rs): the operations of one     *)
(* evaluation context applied in any order.  hist records the last         *)
(* operation with the context before and after it, the allocations the    *)
(* program freed itself, the allocations made to back locals and the       *)
(* globals whose initializer was popped with MarkStatic(false).            *)

MaxDepth == 2

MaxAllocs == 3

MaxStmt == 1

\* the operations of one run
MaxOps == 5

GlobalIds == {1}

\* the integer of `42 as *mut ()`
IntPtr == 42

\* a function body with three locals besides the return slot
FrameMir ==
  Mir("frame", TRUE, 0, "", 4,
      <<Block(<<Stmt("Aggregate", 1, 0, TRUE)>>, Term("Goto", NoDiscr, <<>>, <<2>>)),
        Block(<<>>, Term("Return", NoDiscr, <<>>, <<>>))>>)

Locals == 1..(FrameMir.local_decls_len - 1)

\* type_size of a local: the last local is of a zero-sized type
SizeOf(l) == IF l = FrameMir.local_decls_len - 1 THEN 0 ELSE 1

Sized == {l \in Locals : SizeOf(l) > 0}

Snapshot(c) ==
  [memory |-> c.memory, globals |-> c.globals, stack |-> c.stack,
   last_alloc |-> c.last_alloc, next_id |-> c.next_id, err |-> c.err]

FrameInit ==
  /\ pc = "frames"
  /\ mir = FrameMir
  /\ limits \in [step_limit : {MaxStepLimit}, stack_limit : 0..MaxDepth]
  /\ queue = <<new_ecx(limits, 1)>>
  /\ mems = (1 :> NewMemory)
  /\ globs = (1 :> <<>>)
  /\ stacks = (1 :> <<>>)
  /\ next_ref = 2
  /\ next_alloc_id = 1
  /\ ptr = <<>>
  /\ hist = [op |-> "new", arg |-> 0, freed |-> {}, backing |-> {}, sealed |-> {}, n |-> 0,
             pre |-> Snapshot(Ctx([mems |-> (1 :> NewMemory), globs |-> (1 :> <<>>),
                                   stacks |-> (1 :> <<>>)], new_ecx(limits, 1))),
             post |-> Snapshot(Ctx([mems |-> (1 :> NewMemory), globs |-> (1 :> <<>>),
                                    stacks |-> (1 :> <<>>)], new_ecx(limits, 1)))]

\* the evaluation context the operations act on
Cur == Ctx(Heap, queue[1])

Running == pc = "frames" /\ hist.post.err = "" /\ hist.n < MaxOps

InFrame == Running /\ stacks[1] # <<>>

MayAllocate == next_alloc_id <= MaxAllocs

\* the values a program writes: a number, or a pointer to a live allocation
Written == {ByVal(Bytes(1))} \cup {ByVal(Ptr(a)) : a \in DOMAIN mems[1].allocs}

\* the context r is what the operation op left
Applied(op, arg, r, freed) ==
  /\ mems' = [mems EXCEPT ![1] = r.memory]
  /\ globs' = [globs EXCEPT ![1] = r.globals]
  /\ stacks' = [stacks EXCEPT ![1] = r.stack]
  /\ next_alloc_id' = r.next_id
  /\ hist' = [op |-> op, arg |-> arg, freed |-> hist.freed \cup freed, n |-> hist.n + 1,
              backing |-> IF op \in {"force_allocation", "write_by_ref"}
                          THEN hist.backing \cup ({r.last_alloc} \ {ZstAllocId})
                          ELSE hist.backing,
              sealed |-> IF op = "pop" /\ r.err = ""
                            /\ frame(Cur).return_to_block = CleanupMarkStatic(FALSE)
                         THEN hist.sealed \cup {frame(Cur).return_lvalue.n}
                         ELSE hist.sealed,
              pre |-> Snapshot(Cur), post |-> Snapshot(r)]
  /\ queue' = <<r.ecx>>
  /\ UNCHANGED <<pc, mir, limits, next_ref, ptr>>

\* a call: push_stack_frame with StackPopCleanup::None or Goto(b)
FPush ==
  /\ Running
  /\ \E cleanup \in {CleanupNone} \cup {CleanupGoto(b) : b \in DOMAIN FrameMir.basic_blocks} :
       \E r \in {push_stack_frame(Cur, FrameMir, LvPtr(ZstAllocId), cleanup)} :
         Applied("push", cleanup, r, {})

\* the first use of a static or constant: its slot is cached uninitialized and
\* its initializer is pushed with StackPopCleanup::MarkStatic(mutable)
FPushStatic ==
  /\ Running
  /\ \E cid \in GlobalIds \ DOMAIN globs[1], mutable \in BOOLEAN :
       \E r \in {push_stack_frame([Cur EXCEPT !.globals = @ @@ (cid :> Uninitialized)],
                                  FrameMir, LvGlobal(cid), CleanupMarkStatic(mutable))} :
         Applied("push", CleanupMarkStatic(mutable), r, {})

FPop ==
  /\ InFrame
  /\ \E r \in {pop_stack_frame(Cur)} : Applied("pop", 0, r, {})

\* a statement that leaves the state alone: the frame moves to the next statement
FStatement ==
  /\ InFrame
  /\ frame(Cur).stmt < MaxStmt
  /\ \E r \in {[Cur EXCEPT !.stack[Len(Cur.stack)].stmt = @ + 1]} :
       Applied("statement", 0, r, {})

FWriteLocal ==
  /\ InFrame
  /\ \E l \in Sized :
       \E r \in {write_value_local(Cur, l, ByVal(Bytes(1)))} :
         Applied("write_local", l, r, {})

FWriteByRef ==
  /\ InFrame /\ MayAllocate
  /\ \E l \in Sized :
       \E r \in {write_value_local_by_ref(Cur, l)} : Applied("write_by_ref", l, r, {})

FForceAllocation ==
  /\ InFrame /\ MayAllocate
  /\ \E l \in Locals :
       \E r \in {force_allocation_local(Cur, l, SizeOf(l))} :
         Applied("force_allocation", l, r, {})

\* an aggregate is assigned to a local
FAggregate ==
  /\ InFrame
  /\ \E l \in Locals :
       \E r \in {eval_aggregate(Cur, Stmt("Aggregate", l, 1, SizeOf(l) = 0))} :
         Applied("aggregate", l, r, {})

FAssignFields ==
  /\ InFrame
  /\ \E l \in Locals :
       \E r \in {assign_fields(Cur, l, SizeOf(l), ByVal(Bytes(1)))} :
         Applied("assign_fields", l, r, {})

\* dest = &src
FRef ==
  /\ InFrame /\ MayAllocate
  /\ \E src \in Locals, dest \in Sized :
       /\ src # dest
       /\ \E r \in {eval_ref(Cur, src, dest, SizeOf(src))} :
            Applied("ref", [src |-> src, dest |-> dest], r, {})

\* *p = v for a pointer p and a value v of size bytes: p is made from an
\* integer, or points to the zero-sized, a live or a freed allocation
FWritePtr ==
  /\ Running
  /\ \E p \in {NeverAlloc(IntPtr), ZstAllocId} \cup DOMAIN mems[1].allocs \cup hist.freed,
        size \in {0, 1} :
       /\ size = 0 \/ p = NeverAlloc(IntPtr)
       /\ \E r \in {write_value_to_ptr(Cur, ByVal(IF size = 0 THEN Undef ELSE Bytes(1)), p, size)} :
            Applied("write_ptr", [p |-> p, size |-> size], r, {})

\* the initializer writes its result to its return lvalue, the global
FWriteReturn ==
  /\ InFrame
  /\ frame(Cur).return_lvalue.kind = "Global"
  /\ \E v \in Written :
       \E r \in {write_value_global(Cur, frame(Cur).return_lvalue.n, v)} :
         Applied("write_return", frame(Cur).return_lvalue.n, r, {})

\* a later write to a global that has been initialized
FWriteGlobal ==
  /\ Running
  /\ \E cid \in DOMAIN globs[1], v \in Written :
       /\ globs[1][cid].initialized
       /\ \E r \in {write_value_global(Cur, cid, v)} : Applied("write_global", cid, r, {})

FModifyGlobal ==
  /\ Running
  /\ \E cid \in DOMAIN globs[1], v \in Written :
       /\ globs[1][cid].initialized
       /\ \E r \in {modify_global(Cur, cid, v)} : Applied("modify_global", cid, r, {})

\* the program frees an allocation itself
FDeallocate ==
  /\ Running
  /\ \E a \in DOMAIN mems[1].allocs :
       \E r \in {deallocate(Cur, a)} : Applied("deallocate", a, r, {a})

FrameNext ==
  \/ FPush
  \/ FPushStatic
  \/ FPop
  \/ FStatement
  \/ FWriteLocal
  \/ FWriteByRef
  \/ FForceAllocation
  \/ FWriteReturn
  \/ FWriteGlobal
  \/ FModifyGlobal
  \/ FDeallocate

FrameSpec == FrameInit /\ [][FrameNext]_vars

\* the operations on values of zero-sized types, among calls, returns,
\* allocations and deallocations
ZstNext ==
  \/ FPush
  \/ FPop
  \/ FForceAllocation
  \/ FAggregate
  \/ FAssignFields
  \/ FRef
  \/ FWritePtr
  \/ FDeallocate

ZstSpec == FrameInit /\ [][ZstNext]_vars

----------------------------------------------------------------------------
(* Properties of the frame operations *)

StackLimit == queue[1].stack_limit

\* C11: push_stack_frame succeeds exactly when the depth after the push is at
\* most stack_limit and fails with StackFrameLimitReached otherwise, so a state
\* that goes on executing never has more than stack_limit frames
C11_StackLimit ==
  pc = "frames" =>
    /\ hist.op = "push" =>
         /\ Len(hist.post.stack) = Len(hist.pre.stack) + 1
         /\ (hist.post.err = "") <=> (Len(hist.post.stack) <= StackLimit)
         /\ hist.post.err \in {"", "StackFrameLimitReached"}
    /\ hist.post.err = "" => Len(stacks[1]) <= StackLimit

\* a push is refused one frame above a limit that earlier pushes have filled
C11_Witness ==
  /\ pc = "frames"
  /\ hist.op = "push"
  /\ hist.post.err = "StackFrameLimitReached"
  /\ StackLimit > 0
  /\ Len(hist.pre.stack) = StackLimit

\* the frame a pop removes, and the allocations that back its locals
Top == hist.pre.stack[Len(hist.pre.stack)]

Backed == {i \in DOMAIN Top.locals : Top.locals[i].tag = "ByRef" /\ Top.locals[i].p1.n # ZstAllocId}

Backing(i) == Top.locals[i].p1.n

LiveIn(s) == DOMAIN s.memory.allocs

\* the cleanup stage of the pop returns an error: the global points to freed memory
CleanupFails ==
  /\ Top.return_to_block.kind = "MarkStatic"
  /\ LET v == hist.pre.globals[Top.return_lvalue.n].value
     IN v.p1.t = "Ptr" /\ v.p1.n \notin LiveIn(hist.pre)

\* local i has been torn down: its allocation is gone, unless it is static
TornDown(i) ==
  IF Backing(i) \in LiveIn(hist.post)
  THEN hist.post.memory.allocs[Backing(i)].static
  ELSE ~hist.pre.memory.allocs[Backing(i)].static

\* C12: when a frame is popped, deallocate is called on the pointer of every
\* local that holds ByRef; DeallocatedStaticMemory from it is ignored and the
\* teardown goes on with the next local; any other error of deallocate is what
\* the pop returns
C12_Teardown ==
  (pc = "frames" /\ hist.op = "pop" /\ ~CleanupFails) =>
    LET dead == {i \in Backed : Backing(i) \notin LiveIn(hist.pre)} IN
    IF dead = {}
    THEN /\ hist.post.err = ""
         /\ \A i \in Backed : TornDown(i)
    ELSE /\ hist.post.err = "DanglingPointerDeref"
         /\ \A i \in Backed : (\A j \in dead : i < j) => TornDown(i)

\* the first local is backed by memory that became static and is kept, and the
\* local after it is deallocated
C12_Witness ==
  /\ pc = "frames" /\ hist.op = "pop" /\ hist.post.err = ""
  /\ Backed = {1, 2}
  /\ Backing(1) \in LiveIn(hist.post)
  /\ hist.post.memory.allocs[Backing(1)].static
  /\ Backing(2) \in LiveIn(hist.pre) \ LiveIn(hist.post)

\* a pop returns the error of deallocate on a local whose memory was freed
C12_ErrorReturned ==
  /\ pc = "frames" /\ hist.op = "pop" /\ ~CleanupFails
  /\ hist.post.err = "DanglingPointerDeref"

\* the allocations that back a local of a frame on the stack
OnStack ==
  {stacks[1][x[1]].locals[x[2]].p1.n :
     x \in {y \in (DOMAIN stacks[1]) \X Locals : stacks[1][y[1]].locals[y[2]].tag = "ByRef"}}
    \ {ZstAllocId}

IsStatic(a) == a \in DOMAIN mems[1].allocs /\ mems[1].allocs[a].static

PopReturned == pc = "frames" /\ hist.op = "pop" /\ hist.post.err = ""

C13_StaticKept ==
  /\ PopReturned
  /\ \E i \in Backed : IsStatic(Backing(i))

GlobalWrite == pc = "frames" /\ hist.op \in {"write_global", "modify_global"}

\* C14: once the frame that initializes a global has been popped with
\* MarkStatic(false) the global is initialized and immutable, and every later
\* write_value or modify_global on it fails with ModifiedConstantMemory and
\* leaves it as it was; after MarkStatic(true) it is initialized and a write
\* to it succeeds
C14_Sealing ==
  pc = "frames" =>
    /\ \A cid \in hist.sealed : globs[1][cid].initialized /\ ~globs[1][cid].mutable
    /\ (PopReturned /\ Top.return_to_block.kind = "MarkStatic") =>
         /\ globs[1][Top.return_lvalue.n].initialized
         /\ globs[1][Top.return_lvalue.n].mutable = (Top.return_to_block.target = 1)
    /\ GlobalWrite =>
         IF hist.arg \in hist.sealed
         THEN /\ hist.post.err = "ModifiedConstantMemory"
              /\ hist.post.globals = hist.pre.globals
         ELSE /\ hist.post.err = ""
              /\ hist.post.globals[hist.arg].mutable

\* a write to a sealed global has been refused
C14_Witness ==
  /\ GlobalWrite
  /\ hist.arg \in hist.sealed
  /\ hist.post.err = "ModifiedConstantMemory"

\* a write to a global initialized with MarkStatic(true) has succeeded
C14_StaysWritable ==
  /\ GlobalWrite
  /\ hist.arg \notin hist.sealed
  /\ hist.post.err = ""
  /\ hist.post.globals # hist.pre.globals

\* the caller of the popped frame, before and after the pop
CallerBefore == hist.pre.stack[Len(hist.pre.stack) - 1]

CallerAfter == hist.post.stack[Len(hist.post.stack)]

\* C15: a pop with cleanup Goto(b) leaves the stack one frame shorter with the
\* caller on top at the first statement of block b, its locals untouched; a
\* pop with cleanup None leaves the caller where it was
C15_ReturnTarget ==
  (PopReturned /\ Top.return_to_block.kind \in {"Goto", "None"}) =>
    /\ Len(hist.post.stack) = Len(hist.pre.stack) - 1
    /\ Len(hist.pre.stack) > 1 =>
         /\ SubSeq(hist.post.stack, 1, Len(hist.post.stack) - 1)
              = SubSeq(hist.pre.stack, 1, Len(hist.pre.stack) - 2)
         /\ IF Top.return_to_block.kind = "Goto"
            THEN CallerAfter = [CallerBefore EXCEPT !.block = Top.return_to_block.target,
                                                    !.stmt = 0]
            ELSE CallerAfter = CallerBefore

\* the caller had moved on in its block and resumes at the start of another one
C15_Witness ==
  /\ PopReturned
  /\ Top.return_to_block.kind = "Goto"
  /\ Len(hist.pre.stack) > 1
  /\ CallerBefore.stmt > 0
  /\ CallerBefore.block # Top.return_to_block.target
  /\ CallerAfter.block = Top.return_to_block.target
  /\ CallerAfter.stmt = 0

\* after a pop with cleanup None the caller is where it was
C15_NoJump ==
  /\ PopReturned
  /\ Top.return_to_block.kind = "None"
  /\ Len(hist.pre.stack) > 1
  /\ CallerBefore.stmt > 0
  /\ CallerAfter = CallerBefore

----------------------------------------------------------------------------
(* Properties of the operations on zero-sized types *)

\* the operation left memory, locals, globals and the allocation counter alone
Untouched ==
  /\ hist.post.memory = hist.pre.memory
  /\ hist.post.stack = hist.pre.stack
  /\ hist.post.globals = hist.pre.globals
  /\ hist.post.next_id = hist.pre.next_id

ZstAssign ==
  /\ pc = "frames"
  /\ hist.op \in {"aggregate", "assign_fields"}
  /\ SizeOf(hist.arg) = 0

\* C16: the assignment of an aggregate of a zero-sized type, and assign_fields
\* on a zero-sized destination, succeed, allocate nothing and change no byte of
\* memory, no local and no global: the live allocations and leak_report() are
\* as before
C16_ZstAssignNop ==
  ZstAssign =>
    /\ hist.post.err = ""
    /\ Untouched
    /\ LiveIn(hist.post) = LiveIn(hist.pre)
    /\ leak_report(hist.post.memory) = leak_report(hist.pre.memory)

\* a zero-sized aggregate has been assigned while allocations were live
C16_Witness ==
  /\ ZstAssign
  /\ hist.op = "aggregate"
  /\ leak_report(hist.pre.memory) > 0

\* assign_fields has been called on a zero-sized destination
C16_AssignFields ==
  /\ ZstAssign
  /\ hist.op = "assign_fields"
  /\ leak_report(hist.pre.memory) > 0

RefZst == pc = "frames" /\ hist.op = "ref" /\ SizeOf(hist.arg.src) = 0

\* C17: the address taken of a value of a zero-sized type is always the one
\* zero-sized pointer, however often it is taken and whatever allocations
\* exist, and taking it creates no allocation
C17_ZstAddress ==
  RefZst =>
    LET dest == frame(hist.pre).locals[hist.arg.dest] IN
    /\ hist.post.last_alloc = ZstAllocId
    /\ LiveIn(hist.post) = LiveIn(hist.pre)
    /\ hist.post.next_id = hist.pre.next_id
    /\ IF dest.tag # "ByRef"
       THEN /\ hist.post.err = ""
            /\ frame(hist.post).locals[hist.arg.dest] = ByVal(Ptr(ZstAllocId))
            /\ hist.post.memory = hist.pre.memory
       ELSE IF dest.p1.n \in LiveIn(hist.pre)
       THEN /\ hist.post.err = ""
            /\ hist.post.memory.allocs[dest.p1.n].val = Ptr(ZstAllocId)
       ELSE hist.post.err = "DanglingPointerDeref"

\* the address is taken a second time, into another local, after allocations
\* were made: both locals hold the same pointer
C17_Witness ==
  /\ RefZst
  /\ LiveIn(hist.pre) # {}
  /\ \E l \in Sized \ {hist.arg.dest} :
       /\ frame(hist.pre).locals[l] = ByVal(Ptr(ZstAllocId))
       /\ frame(hist.post).locals[l] = frame(hist.post).locals[hist.arg.dest]

WriteZst == pc = "frames" /\ hist.op = "write_ptr" /\ hist.arg.size = 0

C18_Dangling ==
  /\ WriteZst
  /\ hist.arg.p \in hist.freed
  /\ hist.post.err = ""

\* a write of one byte through the pointer made from an integer is refused
C18_SizedRefused ==
  /\ pc = "frames" /\ hist.op = "write_ptr" /\ hist.arg.size = 1
  /\ hist.post.err = "DanglingPointerDeref"

----------------------------------------------------------------------------
(* Binary operators (operator.rs).  Here the u128 of PrimVal::Bytes is    *)
(* spelled out as its sixteen bytes, least significant first, and the      *)
(* payload of PrimVal::Ptr is a Pointer with its allocation and offset.    *)

U128Len == 16

IntKinds == {"I8", "U8", "I16", "I32", "U32", "U64"}

num_bytes(k) ==
  CASE k \in {"I8", "U8", "Bool"} -> 1
    [] k = "I16" -> 2
    [] k \in {"I32", "U32"} -> 4
    [] k \in {"U64", "Ptr"} -> 8

is_signed_int(k) == k \in {"I8", "I16", "I32"}

\* the n low bytes of the integer v in two's complement
RECURSIVE ToBytes(_, _)
ToBytes(v, n) == IF n = 0 THEN <<>> ELSE <<v % (U8Max + 1)>> \o ToBytes(v \div (U8Max + 1), n - 1)

\* `x as u128` of the value whose bytes are x: extended by its sign if signed
AsU128(x, signed) ==
  x \o [i \in 1..(U128Len - Len(x)) |-> IF signed /\ 2 * x[Len(x)] > U8Max THEN U8Max ELSE 0]

\* a Pointer: PointerOffset::Concrete(off) has sbytes = 0 and
\* PointerOffset::Abstract(sbytes) has the symbol sbytes > 0 and offset = 0
Pointer(a, off) == [alloc_id |-> a, offset |-> off, sbytes |-> 0]

new_abstract(a, sbytes) == [alloc_id |-> a, offset |-> 0, sbytes |-> sbytes]

\* PrimVal::Abstract(sbytes): the symbol 1 is the byte input[0], a symbol
\* k > 1 is the result of constraint k - 1 of the store
Abstract(sbytes) == [t |-> "Abstract", n |-> sbytes]

\* PrimVal::is_concrete
is_concrete(val) == ~(val.t = "Abstract" \/ (val.t = "Ptr" /\ val.n.sbytes # 0))

\* the value of the bytes x read as an unsigned number
RECURSIVE Unsigned(_)
Unsigned(x) == IF x = <<>> THEN 0 ELSE x[1] + (U8Max + 1) * Unsigned(Tail(x))

\* a panic of the interpreter is carried as the error of the operation, under
\* the message of the panic
NotYetImplemented == "panic: not yet implemented"

DivideByZero == "panic: attempt to divide by zero"

ArithmeticOverflow == "panic: arithmetic overflow"

Bug == "panic: bug"

Panics == {NotYetImplemented, DivideByZero, ArithmeticOverflow, Bug}

from_bool(b) == Bytes(ToBytes(IF b THEN 1 ELSE 0, U128Len))

\* the bytes of a + b + carry, followed by the carry out
RECURSIVE add_carry(_, _, _)
add_carry(a, b, carry) ==
  IF a = <<>> THEN <<carry>>
  ELSE <<(a[1] + b[1] + carry) % (U8Max + 1)>>
         \o add_carry(Tail(a), Tail(b), (a[1] + b[1] + carry) \div (U8Max + 1))

\* the low bytes of x * d + acc
RECURSIVE mul_acc(_, _, _, _)
mul_acc(x, d, acc, carry) ==
  IF x = <<>> THEN <<>>
  ELSE <<(x[1] * d + acc[1] + carry) % (U8Max + 1)>>
         \o mul_acc(Tail(x), d, Tail(acc), (x[1] * d + acc[1] + carry) \div (U8Max + 1))

\* x * y cut to the length of x
RECURSIVE wrapping_mul(_, _)
wrapping_mul(x, y) ==
  IF x = <<>> THEN <<>>
  ELSE mul_acc(x, y[1], <<0>> \o wrapping_mul(SubSeq(x, 1, Len(x) - 1), Tail(y)), 0)

\* <int>::overflowing_add, overflowing_sub, overflowing_mul, overflowing_div and
\* overflowing_rem on two values of w bytes: the wrapped result and whether the
\* exact result is out of range; the division is that of a non-zero divisor
overflowing(bin_op, a, b, signed) ==
  LET w == Len(a)
      neg(x) == 2 * x[Len(x)] > U8Max
      s == IF bin_op = "Add" THEN add_carry(a, b, 0)
           ELSE add_carry(a, [i \in DOMAIN b |-> U8Max - b[i]], 1)
      wide(x) == SubSeq(AsU128(x, signed), 1, 2 * w)
      p == wrapping_mul(wide(a), wide(b))
  IN CASE bin_op = "Add" ->
            [val |-> SubSeq(s, 1, w),
             overflowed |-> IF signed THEN neg(a) = neg(b) /\ neg(SubSeq(s, 1, w)) # neg(a)
                            ELSE s[w + 1] = 1]
       [] bin_op = "Sub" ->
            [val |-> SubSeq(s, 1, w),
             overflowed |-> IF signed THEN neg(a) # neg(b) /\ neg(SubSeq(s, 1, w)) # neg(a)
                            ELSE s[w + 1] = 0]
       [] bin_op = "Mul" ->
            [val |-> SubSeq(p, 1, w), overflowed |-> p # wide(SubSeq(p, 1, w))]
       [] bin_op \in {"Div", "Rem"} ->
            LET span == Unsigned([i \in 1..(w + 1) |-> IF i > w THEN 1 ELSE 0])
                num(x) == Unsigned(x) - (IF signed /\ neg(x) THEN span ELSE 0)
                abs(v) == IF v < 0 THEN 0 - v ELSE v
                q == abs(num(a)) \div abs(num(b))
                m == abs(num(a)) % abs(num(b))
                min_by_minus_one == signed /\ 2 * Unsigned(a) = span /\ num(b) = 0 - 1
            IN IF min_by_minus_one
               THEN [val |-> IF bin_op = "Div" THEN a ELSE ToBytes(0, w), overflowed |-> TRUE]
               ELSE [val |-> ToBytes(IF bin_op = "Div"
                                     THEN (IF (num(a) < 0) # (num(b) < 0) THEN 0 - q ELSE q)
                                     ELSE (IF num(a) < 0 THEN 0 - m ELSE m), w),
                     overflowed |-> FALSE]

\* the result of a binary operation: Ok((val, overflowed)) or Err(err)
OpOk(val, overflowed) == [val |-> val, overflowed |-> overflowed, err |-> ""]

OpErr(e) == [val |-> Undef, overflowed |-> FALSE, err |-> e]

\* int_arithmetic! with overflow! that keeps the result as the unsigned value
\* of its w bytes
int_arithmetic_unsigned(kind, bin_op, l, r) ==
  LET w == num_bytes(kind)
      o == overflowing(bin_op, SubSeq(l, 1, w), SubSeq(r, 1, w), is_signed_int(kind))
  IN OpOk(Bytes(AsU128(o.val, FALSE)), o.overflowed)

\* int_arithmetic!: `l as kind` and `r as kind` are the low bytes of the
\* operands; overflow! stores `val as u128`; overflowing_div and overflowing_rem
\* panic when the divisor is zero
int_arithmetic(kind, bin_op, l, r) ==
  IF kind \notin IntKinds THEN OpErr(Bug)
  ELSE IF bin_op \in {"Div", "Rem"} /\ Unsigned(SubSeq(r, 1, num_bytes(kind))) = 0
  THEN OpErr(DivideByZero)
  ELSE LET w == num_bytes(kind)
           o == overflowing(bin_op, SubSeq(l, 1, w), SubSeq(r, 1, w), is_signed_int(kind))
       IN OpOk(Bytes(AsU128(o.val, is_signed_int(kind))), o.overflowed)

Comparisons == {"Lt", "Le", "Gt", "Ge"}

Compare(bin_op, l, r) ==
  CASE bin_op = "Lt" -> l < r
    [] bin_op = "Le" -> l <= r
    [] bin_op = "Gt" -> l > r
    [] bin_op = "Ge" -> l >= r

\* the result of an operation of the context: the context it leaves and
\* Ok((val, overflowed)) or Err(err)
Res(c, r) == [c |-> c, val |-> r.val, overflowed |-> r.overflowed, err |-> r.err]

\* add_binop_constraint: two concrete operands are computed directly; otherwise
\* the store records the operation under a fresh symbol, which is the result
add_binop_constraint(c, bin_op, left, right, kind) ==
  IF is_concrete(left) /\ is_concrete(right)
  THEN Res(c, int_arithmetic(kind, bin_op, left.n, right.n))
  ELSE LET k == Len(c.memory.constraints) + 2 IN
       Res([c EXCEPT !.memory = push_constraint(@, [op |-> bin_op, left |-> left, right |-> right,
                                                    kind |-> kind, result |-> k])],
           OpOk(Abstract(k), FALSE))

\* add_unop_constraint: the store records the operation under a fresh symbol
add_unop_constraint(c, un_op, val, kind) ==
  LET k == Len(c.memory.constraints) + 2 IN
  Res([c EXCEPT !.memory = push_constraint(@, [op |-> un_op, left |-> val, right |-> Undef,
                                               kind |-> kind, result |-> k])],
      OpOk(Abstract(k), FALSE))

\* the offset of a pointer as a PrimVal
offset_primval(p) ==
  IF p.sbytes = 0 THEN Bytes(ToBytes(p.offset, U128Len)) ELSE Abstract(p.sbytes)

\* abstract_ptr_ops: one of the offsets is symbolic
abstract_ptr_ops(c, bin_op, left, left_kind, right, right_kind) ==
  IF left.alloc_id # right.alloc_id THEN Res(c, OpErr(NotYetImplemented))
  ELSE add_binop_constraint(c, bin_op, offset_primval(left), offset_primval(right), "U64")

\* ptr_ops that orders pointers by their offsets whatever their allocations
ptr_ops_by_offset(c, bin_op, left, left_kind, right, right_kind) ==
  Res(c, CASE bin_op = "Eq" -> OpOk(from_bool(left.offset = right.offset), FALSE)
           [] bin_op = "Ne" -> OpOk(from_bool(left.offset # right.offset), FALSE)
           [] bin_op \in Comparisons ->
                OpOk(from_bool(Compare(bin_op, left.offset, right.offset)), FALSE)
           [] bin_op = "Sub" ->
                int_arithmetic(left_kind, "Sub", ToBytes(left.offset, U128Len),
                               ToBytes(right.offset, U128Len))
           [] OTHER -> OpErr("ReadPointerAsBytes"))

\* ptr_ops on two pointers
ptr_ops(c, bin_op, left, left_kind, right, right_kind) ==
  IF left_kind # right_kind \/ left_kind \notin {"Ptr", "U64"} THEN Res(c, OpErr("Unimplemented"))
  ELSE IF left.sbytes # 0 \/ right.sbytes # 0
  THEN abstract_ptr_ops(c, bin_op, left, left_kind, right, right_kind)
  ELSE Res(c,
       CASE bin_op = "Eq" -> OpOk(from_bool(left = right), FALSE)
         [] bin_op = "Ne" -> OpOk(from_bool(left # right), FALSE)
         [] bin_op \in Comparisons ->
              IF left.alloc_id = right.alloc_id
              THEN OpOk(from_bool(Compare(bin_op, left.offset, right.offset)), FALSE)
              ELSE OpErr("InvalidPointerMath")
         [] bin_op = "Sub" ->
              IF left.alloc_id = right.alloc_id
              THEN int_arithmetic(left_kind, "Sub", ToBytes(left.offset, U128Len),
                                  ToBytes(right.offset, U128Len))
              ELSE OpErr("InvalidPointerMath")
         [] OTHER -> OpErr("ReadPointerAsBytes"))

\* the bytes are a number below 2^24
Small(bytes) == \A i \in 4..Len(bytes) : bytes[i] = 0

\* ptr_and_bytes_ops on a pointer and an integer
ptr_and_bytes_ops(c, bin_op, left, right) ==
  CASE bin_op = "Eq" -> OpOk(from_bool(FALSE), FALSE)
    [] bin_op = "Ne" -> OpOk(from_bool(TRUE), FALSE)
    [] bin_op \in Comparisons -> OpErr("InvalidPointerMath")
    [] bin_op = "Add" ->
         IF left.sbytes # 0 THEN OpErr(NotYetImplemented)
         ELSE IF left.alloc_id \notin DOMAIN c.memory.allocs THEN OpErr("DanglingPointerDeref")
         ELSE IF Small(right)
                 /\ left.offset + Unsigned(SubSeq(right, 1, 3)) < c.memory.allocs[left.alloc_id].len
         THEN OpOk(Ptr(Pointer(left.alloc_id, left.offset + Unsigned(SubSeq(right, 1, 3)))), FALSE)
         ELSE OpErr(NotYetImplemented)
    [] bin_op = "Sub" -> OpErr(NotYetImplemented)
    [] bin_op \in {"BitOr", "BitAnd", "BitXor"} -> OpErr("ReadPointerAsBytes")
    [] OTHER -> OpErr(NotYetImplemented)

\* SByte::Concrete(b) and a symbolic byte of the store
Concrete(b) == [sym |-> 0, v |-> b]

SymbolicByte(id) == [sym |-> id, v |-> 0]

\* the eight bytes of a PrimVal::Abstract
SBytesLen == 8

\* PrimVal::Abstract with its buffer of symbolic bytes spelled out
AbstractBuffer(buffer) == [t |-> "Abstract", n |-> buffer]

\* the loops of abstract_binary_op that move the bytes of the buffer by
\* num_bytes positions
shift_sbytes(bin_op, abytes, num_bytes_) ==
  [idx \in 1..SBytesLen |->
     IF bin_op = "Shl"
     THEN (IF idx - 1 >= num_bytes_ THEN abytes[idx - num_bytes_] ELSE Concrete(0))
     ELSE (IF idx + num_bytes_ <= SBytesLen THEN abytes[idx + num_bytes_] ELSE Concrete(0))]

\* abstract_binary_op: a shift of an Abstract by a concrete multiple of 8 moves
\* the bytes of the buffer (not the right shift of a signed kind); any other
\* shift is recorded with the kind of the left operand, unless the right
\* operand is of a wider kind and not a number below 256; the other operators
\* are recorded if the operands are of one kind
abstract_binary_op(c, bin_op, left, left_kind, right, right_kind) ==
  IF bin_op \in {"Shl", "Shr"}
  THEN IF left.t = "Abstract" /\ right.t = "Bytes" /\ right.n[1] % 8 = 0
          /\ (bin_op = "Shl" \/ ~is_signed_int(left_kind))
       THEN Res(c, OpOk(AbstractBuffer(
                          shift_sbytes(bin_op, left.n,
                                       IF Small(right.n)
                                       THEN Unsigned(SubSeq(right.n, 1, 3)) \div 8
                                       ELSE SBytesLen)),
                        FALSE))
       ELSE IF num_bytes(right_kind) > num_bytes(left_kind)
               /\ ~(right.t = "Bytes" /\ \A idx \in 2..U128Len : right.n[idx] = 0)
       THEN Res(c, OpErr(NotYetImplemented))
       ELSE add_binop_constraint(c, bin_op, left, right, left_kind)
  ELSE IF left_kind # right_kind THEN Res(c, OpErr("Unimplemented"))
  ELSE add_binop_constraint(c, bin_op, left, right, left_kind)

\* l < r for two u128, or for two i128 if signed
RECURSIVE less(_, _, _)
less(l, r, signed) ==
  LET n == Len(l) IN
  IF n = 0 THEN FALSE
  ELSE IF signed /\ (2 * l[n] > U8Max) # (2 * r[n] > U8Max) THEN 2 * l[n] > U8Max
  ELSE IF l[n] # r[n] THEN l[n] < r[n]
  ELSE less(SubSeq(l, 1, n - 1), SubSeq(r, 1, n - 1), FALSE)

\* a | b, a & b and a ^ b on the n low bits of two numbers
RECURSIVE bits(_, _, _, _)
bits(bin_op, a, b, n) ==
  IF n = 0 THEN 0
  ELSE (CASE bin_op = "BitOr" -> IF (a % 2) + (b % 2) > 0 THEN 1 ELSE 0
          [] bin_op = "BitAnd" -> IF (a % 2) + (b % 2) = 2 THEN 1 ELSE 0
          [] bin_op = "BitXor" -> (a + b) % 2)
       + 2 * bits(bin_op, a \div 2, b \div 2, n - 1)

is_int(k) == k \in IntKinds

\* 2^k for a bit k of a byte
Pow2(k) == <<1, 2, 4, 8, 16, 32, 64, 128>>[k + 1]

\* the bit i, counted from 0, of a number held as its bytes
BitOf(b, i) == (b[(i \div 8) + 1] \div Pow2(i % 8)) % 2

\* a << s and a >> s on a value of Len(a) bytes, for 0 <= s; the right shift of
\* a signed value fills with its sign bit
shifted(bin_op, a, s, signed) ==
  LET n == 8 * Len(a)
      sign == IF signed THEN BitOf(a, n - 1) ELSE 0
      bit(i) == IF bin_op = "Shl" THEN (IF i >= s THEN BitOf(a, i - s) ELSE 0)
                ELSE (IF i + s < n THEN BitOf(a, i + s) ELSE sign)
  IN [j \in 1..Len(a) |->
        bit(8 * j - 8) + 2 * bit(8 * j - 7) + 4 * bit(8 * j - 6) + 8 * bit(8 * j - 5)
          + 16 * bit(8 * j - 4) + 32 * bit(8 * j - 3) + 64 * bit(8 * j - 2)
          + 128 * bit(8 * j - 1)]

\* whether the u32 r, held as its four bytes, is not below the n bits of the type
shift_overflows(r, n) == r[1] >= n \/ \E i \in 2..4 : r[i] # 0

\* a shift by the whole amount: every bit is shifted out when r is not below
\* the bits of the type
int_shift_unmasked(kind, bin_op, l, r) ==
  LET w == num_bytes(kind)
      u32 == SubSeq(r, 1, 4)
      s == IF shift_overflows(u32, 8 * w) THEN 8 * w ELSE u32[1]
  IN IF kind \notin IntKinds THEN OpErr(Bug)
     ELSE OpOk(Bytes(AsU128(shifted(bin_op, SubSeq(l, 1, w), s, is_signed_int(kind)),
                       is_signed_int(kind))),
          shift_overflows(u32, 8 * w))

\* int_shift! with overflow!: `l as kind` is shifted by `r as u32`, which
\* <int>::overflowing_shl and overflowing_shr mask to the bits of the kind (the
\* number of bits divides 256, so that the masked amount is that of the low byte)
int_shift(kind, bin_op, l, r) ==
  IF kind \notin IntKinds THEN OpErr(Bug)
  ELSE LET w == num_bytes(kind)
           u32 == SubSeq(r, 1, 4)
       IN OpOk(Bytes(AsU128(shifted(bin_op, SubSeq(l, 1, w), u32[1] % (8 * w),
                                    is_signed_int(kind)),
                            is_signed_int(kind))),
               shift_overflows(u32, 8 * w))

\* the comparisons of binary_op taken on the operands as u128 whatever the kind
bytes_op_unsigned_order(bin_op, kind, l, r) ==
  CASE bin_op = "Eq" -> OpOk(from_bool(l = r), FALSE)
    [] bin_op = "Ne" -> OpOk(from_bool(l # r), FALSE)
    [] bin_op = "Lt" -> OpOk(from_bool(less(l, r, FALSE)), FALSE)
    [] bin_op = "Le" -> OpOk(from_bool(~less(r, l, FALSE)), FALSE)
    [] bin_op = "Gt" -> OpOk(from_bool(less(r, l, FALSE)), FALSE)
    [] bin_op = "Ge" -> OpOk(from_bool(~less(l, r, FALSE)), FALSE)
    [] bin_op \in {"BitOr", "BitAnd", "BitXor"} ->
         OpOk(Bytes([i \in DOMAIN l |-> bits(bin_op, l[i], r[i], 8)]), FALSE)
    [] bin_op \in {"Add", "Sub", "Mul", "Div", "Rem"} /\ is_int(kind) ->
         int_arithmetic(kind, bin_op, l, r)
    [] OTHER -> OpErr("Unimplemented")

\* binary_op on two concrete integers
bytes_op(bin_op, kind, l, r) ==
  CASE bin_op = "Eq" -> OpOk(from_bool(l = r), FALSE)
    [] bin_op = "Ne" -> OpOk(from_bool(l # r), FALSE)
    [] bin_op = "Lt" -> OpOk(from_bool(less(l, r, is_signed_int(kind))), FALSE)
    [] bin_op = "Le" -> OpOk(from_bool(~less(r, l, is_signed_int(kind))), FALSE)
    [] bin_op = "Gt" -> OpOk(from_bool(less(r, l, is_signed_int(kind))), FALSE)
    [] bin_op = "Ge" -> OpOk(from_bool(~less(l, r, is_signed_int(kind))), FALSE)
    [] bin_op \in {"BitOr", "BitAnd", "BitXor"} ->
         OpOk(Bytes([i \in DOMAIN l |-> bits(bin_op, l[i], r[i], 8)]), FALSE)
    [] bin_op \in {"Add", "Sub", "Mul", "Div", "Rem"} /\ is_int(kind) ->
         int_arithmetic(kind, bin_op, l, r)
    [] OTHER -> OpErr("Unimplemented")

\* binary_op, for the operators other than Offset: the shifts come before the
\* test that the operands are of one kind
binary_op(c, bin_op, left, left_kind, right, right_kind) ==
  CASE left.t = "Bytes" /\ right.t = "Bytes" ->
         IF bin_op \in {"Shl", "Shr"} THEN Res(c, int_shift(left_kind, bin_op, left.n, right.n))
         ELSE IF left_kind # right_kind THEN Res(c, OpErr("Unimplemented"))
         ELSE Res(c, bytes_op(bin_op, left_kind, left.n, right.n))
    [] left.t = "Ptr" /\ right.t = "Ptr" ->
         ptr_ops(c, bin_op, left.n, left_kind, right.n, right_kind)
    [] left.t = "Ptr" /\ right.t = "Bytes" ->
         Res(c, ptr_and_bytes_ops(c, bin_op, left.n, right.n))
    [] left.t = "Bytes" /\ right.t = "Ptr" ->
         Res(c, ptr_and_bytes_ops(c, bin_op, right.n, left.n))
    [] left.t = "Undef" \/ right.t = "Undef" -> Res(c, OpErr("ReadUndefBytes"))
    [] OTHER -> abstract_binary_op(c, bin_op, left, left_kind, right, right_kind)

\* unary_op that records every operation in the constraint store
unary_op_recorded(c, un_op, val, val_kind, overflow_checks) ==
  add_unop_constraint(c, un_op, val, val_kind)

\* unary_op with every result cut to the width of the kind
unary_op_zero_extended(c, un_op, val, val_kind, overflow_checks) ==
  LET w == num_bytes(val_kind)
      low == SubSeq(val.n, 1, w)
      not == [i \in 1..w |-> U8Max - low[i]]
      neg == SubSeq(add_carry(not, ToBytes(1, w), 0), 1, w)
  IN IF ~is_concrete(val) THEN add_unop_constraint(c, un_op, val, val_kind)
     ELSE IF val.t = "Undef" THEN Res(c, OpErr("ReadUndefBytes"))
     ELSE IF val.t = "Ptr" THEN Res(c, OpErr("ReadPointerAsBytes"))
     ELSE IF un_op = "Not" /\ val_kind = "Bool"
     THEN Res(c, OpOk(from_bool(Unsigned(val.n) = 0), FALSE))
     ELSE IF un_op = "Not" /\ is_int(val_kind)
     THEN Res(c, OpOk(Bytes(AsU128(not, FALSE)), FALSE))
     ELSE IF un_op = "Neg" /\ is_signed_int(val_kind)
     THEN IF overflow_checks /\ neg = low /\ Unsigned(low) # 0
          THEN Res(c, OpErr(ArithmeticOverflow))
          ELSE Res(c, OpOk(Bytes(AsU128(neg, FALSE)), FALSE))
     ELSE Res(c, OpErr("Unimplemented"))

\* unary_op; a build with overflow checks panics when it negates the least
\* value of a kind
unary_op(c, un_op, val, val_kind, overflow_checks) ==
  LET w == num_bytes(val_kind)
      low == SubSeq(val.n, 1, w)
      not == [i \in 1..w |-> U8Max - low[i]]
      neg == SubSeq(add_carry(not, ToBytes(1, w), 0), 1, w)
  IN IF ~is_concrete(val) THEN add_unop_constraint(c, un_op, val, val_kind)
     ELSE IF val.t = "Undef" THEN Res(c, OpErr("ReadUndefBytes"))
     ELSE IF val.t = "Ptr" THEN Res(c, OpErr("ReadPointerAsBytes"))
     ELSE IF un_op = "Not" /\ val_kind = "Bool"
     THEN Res(c, OpOk(from_bool(Unsigned(val.n) = 0), FALSE))
     ELSE IF un_op = "Not" /\ is_int(val_kind)
     THEN Res(c, OpOk(Bytes(AsU128(not, is_signed_int(val_kind))), FALSE))
     ELSE IF un_op = "Neg" /\ is_signed_int(val_kind)
     THEN IF overflow_checks /\ neg = low /\ Unsigned(low) # 0
          THEN Res(c, OpErr(ArithmeticOverflow))
          ELSE Res(c, OpOk(Bytes(AsU128(neg, TRUE)), FALSE))
     ELSE Res(c, OpErr("Unimplemented"))

\* intrinsic_with_overflow: the pair of the result and the overflow flag is
\* written to the local dest
intrinsic_with_overflow(c, i, dest) ==
  LET b == binary_op(c, i.bin_op, i.left, i.kind, i.right, i.kind) IN
  IF b.err # "" THEN [b.c EXCEPT !.err = b.err]
  ELSE write_value_local(b.c, dest, ByValPair(b.val, from_bool(b.overflowed)))

\* intrinsic_overflowing: the result alone is written to the local dest
intrinsic_overflowing(c, i, dest) ==
  LET b == binary_op(c, i.bin_op, i.left, i.kind, i.right, i.kind) IN
  IF b.err # "" THEN [b.c EXCEPT !.err = b.err]
  ELSE write_value_local(b.c, dest, ByVal(b.val))

\* Rvalue::CheckedBinaryOp: binop_with_overflow takes each operand with the
\* kind of its own type; the result and the overflow flag are written as a pair
eval_checked_binary_op(c, i, dest) ==
  LET b == binary_op(c, i.bin_op, i.left, i.kind, i.right, i.right_kind) IN
  IF b.err # "" THEN [b.c EXCEPT !.err = b.err]
  ELSE write_value_local(b.c, dest, ByValPair(b.val, from_bool(b.overflowed)))

MaxOffset == 2

\* the integers the operands are cut from
Corners == {0 - 2147483647 - 1, 0 - 32768, 0 - 128, 0 - 2, 0 - 1, 0, 1, 2, 127, 32767,
            2147483647}

\* the operands of kind k: every value is held as `v as u128`
Operands(k) == {Bytes(AsU128(ToBytes(v, num_bytes(k)), is_signed_int(k))) : v \in Corners}

Pointers == {Ptr(Pointer(a, off)) : a \in 1..2, off \in 0..MaxOffset}

IntInputs ==
  UNION {[bin_op : {"Add", "Sub", "Mul"}, kind : {k},
          left : Operands(k) \cup {Undef}, right : Operands(k)] : k \in IntKinds \ {"U64"}}

PtrInputs ==
  [bin_op : {"Eq", "Ne", "Sub", "Add"} \cup Comparisons, kind : {"Ptr", "U64"},
   left : Pointers, right : Pointers]

OpInit ==
  /\ pc = "operator"
  /\ mir = FrameMir
  /\ limits = [step_limit |-> MaxStepLimit, stack_limit |-> DefaultStackLimit]
  /\ queue = <<new_ecx(limits, 1)>>
  /\ mems = (1 :> NewMemory)
  /\ globs = (1 :> <<>>)
  /\ stacks = (1 :> <<NewFrame(FrameMir, LvPtr(ZstAllocId), CleanupNone)>>)
  /\ next_ref = 2
  /\ next_alloc_id = 1
  /\ ptr = <<>>
  /\ \E i \in IntInputs \cup PtrInputs : hist = [op |-> "input", in |-> i, err |-> ""]

\* the operation op has left the context r
OpApplied(op, r) ==
  /\ stacks' = [stacks EXCEPT ![1] = r.stack]
  /\ hist' = [hist EXCEPT !.op = op, !.err = r.err]
  /\ UNCHANGED <<pc, mir, limits, queue, mems, globs, next_ref, next_alloc_id, ptr>>

\* the intrinsics add_with_overflow, sub_with_overflow and mul_with_overflow
IntrinsicWithOverflow ==
  /\ pc = "operator" /\ hist.op = "input"
  /\ hist.in.bin_op \in {"Add", "Sub", "Mul"}
  /\ \E r \in {intrinsic_with_overflow(Cur, hist.in, 1)} : OpApplied("with_overflow", r)

\* Rvalue::CheckedBinaryOp
CheckedBinaryOp ==
  /\ pc = "operator" /\ hist.op = "input"
  /\ \E r \in {intrinsic_with_overflow(Cur, hist.in, 1)} : OpApplied("checked", r)

\* Rvalue::BinaryOp and the intrinsics overflowing_add, overflowing_sub and
\* overflowing_mul
IntrinsicOverflowing ==
  /\ pc = "operator" /\ hist.op = "input"
  /\ \E r \in {intrinsic_overflowing(Cur, hist.in, 1)} : OpApplied("overflowing", r)

OpNext ==
  \/ IntrinsicWithOverflow
  \/ CheckedBinaryOp
  \/ IntrinsicOverflowing

OpSpec == OpInit /\ [][OpNext]_vars

----------------------------------------------------------------------------
(* Properties of the binary operators *)

\* the number of values of kind k, for the kinds of one and two bytes
Span(k) == Unsigned([i \in 1..(num_bytes(k) + 1) |-> IF i > num_bytes(k) THEN 1 ELSE 0])

\* the integer an operand of kind k stands for
ValueOf(p, k) ==
  LET u == Unsigned(SubSeq(p.n, 1, num_bytes(k))) IN
  IF is_signed_int(k) /\ u >= Span(k) \div 2 THEN u - Span(k) ELSE u

\* the exact result of the operation on the integers
Exact(i) ==
  CASE i.bin_op = "Add" -> ValueOf(i.left, i.kind) + ValueOf(i.right, i.kind)
    [] i.bin_op = "Sub" -> ValueOf(i.left, i.kind) - ValueOf(i.right, i.kind)
    [] i.bin_op = "Mul" -> ValueOf(i.left, i.kind) * ValueOf(i.right, i.kind)

InRange(v, k) ==
  IF is_signed_int(k) THEN v >= 0 - Span(k) \div 2 /\ v < Span(k) \div 2
  ELSE v >= 0 /\ v < Span(k)

\* the value of kind k that differs from v by a multiple of Span(k)
Wrapped(v, k) ==
  IF is_signed_int(k) /\ v % Span(k) >= Span(k) \div 2 THEN (v % Span(k)) - Span(k)
  ELSE v % Span(k)

Dest == stacks[1][1].locals[1]

\* an operation on two integers of a kind of one or two bytes has been applied
NarrowDone ==
  /\ pc = "operator" /\ hist.op # "input"
  /\ hist.in.kind \in {"I8", "U8", "I16"}
  /\ hist.in.left.t = "Bytes"

Pair(r, f) == IF hist.op = "overflowing" THEN ByVal(r) ELSE ByValPair(r, from_bool(f))

I32Max == Bytes(AsU128(ToBytes(2147483647, 4), TRUE))

I32MaxPlusOne ==
  /\ pc = "operator" /\ hist.op # "input"
  /\ hist.in = [bin_op |-> "Add", kind |-> "I32", left |-> I32Max,
                right |-> Bytes(ToBytes(1, U128Len))]

C19_NarrowOverflow ==
  /\ NarrowDone
  /\ hist.op = "checked"
  /\ hist.in.bin_op = "Mul" /\ hist.in.kind = "I16"
  /\ ~InRange(Exact(hist.in), "I16")
  /\ Wrapped(Exact(hist.in), "I16") < 0

PtrDone ==
  /\ pc = "operator" /\ hist.op # "input"
  /\ hist.in.left.t = "Ptr"

Left == hist.in.left.n

Right == hist.in.right.n

\* the operation returned Ok and wrote the boolean b
Wrote(b) == hist.err = "" /\ Dest.p1 = from_bool(b)

Refused(e) == hist.err = e /\ Dest = ByVal(Undef)

\* C20: for two pointers with concrete offsets into different allocations,
\* <, <=, > and >= and - fail with InvalidPointerMath, == yields false and !=
\* yields true; for two pointers into the same allocation the comparisons are
\* those of the offsets, and the subtraction (of pointers held as usize) is that
\* of the offsets
C20_PointerOps ==
  PtrDone =>
    IF Left.alloc_id # Right.alloc_id
    THEN CASE hist.in.bin_op \in Comparisons \cup {"Sub"} -> Refused("InvalidPointerMath")
           [] hist.in.bin_op = "Eq" -> Wrote(FALSE)
           [] hist.in.bin_op = "Ne" -> Wrote(TRUE)
           [] OTHER -> TRUE
    ELSE CASE hist.in.bin_op \in Comparisons ->
                Wrote(Compare(hist.in.bin_op, Left.offset, Right.offset))
           [] hist.in.bin_op = "Eq" -> Wrote(Left.offset = Right.offset)
           [] hist.in.bin_op = "Ne" -> Wrote(Left.offset # Right.offset)
           [] hist.in.bin_op = "Sub" /\ hist.in.kind = "U64" ->
                /\ hist.err = ""
                /\ Dest.p1 = Bytes(AsU128(ToBytes(Left.offset - Right.offset, 8), FALSE))
                /\ hist.op # "overflowing" => Dest.p2 = from_bool(Left.offset < Right.offset)
           [] OTHER -> TRUE

\* two pointers into different allocations, the left one at the larger offset,
\* have been compared with < and the comparison was refused
C20_Witness ==
  /\ PtrDone
  /\ hist.in.bin_op = "Lt"
  /\ Left.alloc_id # Right.alloc_id
  /\ Left.offset > Right.offset
  /\ hist.err = "InvalidPointerMath"

\* two pointers into one allocation have been subtracted
C20_SameAllocation ==
  /\ PtrDone
  /\ hist.in.bin_op = "Sub" /\ hist.in.kind = "U64"
  /\ Left.alloc_id = Right.alloc_id
  /\ Left.offset > Right.offset
  /\ hist.err = ""

----------------------------------------------------------------------------
(* Properties of the executor's loop: leaks, termination and budgets *)

\* the allocation eval_main created for the input of main(&[u8])
InputAlloc == {ptr[i] : i \in DOMAIN ptr}

Halted == {i \in DOMAIN hist.results : hist.results[i].tag = "halt"}

\* C26: the leak count of a halted state is the number of the allocations the
\* guest left live, the abstract input not counted: 1 for a state that boxed a
\* value and never dropped it, 0 for a program that frees what it allocates, and
\* so for every forked state that halts
C26_Leaks ==
  \A i \in Halted :
    /\ InputAlloc \subseteq hist.results[i].live
    /\ hist.results[i].leaks = Cardinality(hist.results[i].live \ InputAlloc)
    /\ mir = ForkAlloc => hist.results[i].leaks = 1
    /\ mir \in {Branch42, GotoProg, RepeatProg} => hist.results[i].leaks = 0

\* two states forked from the program with an input have halted, each with the
\* one box it allocated
C26_Witness ==
  /\ mir = ForkAlloc /\ ptr # <<>>
  /\ \E i, j \in Halted :
       /\ hist.results[i].id # hist.results[j].id
       /\ hist.results[i].leaks = 1 /\ hist.results[j].leaks = 1
       /\ hist.results[i].live # hist.results[j].live

\* a program that allocates and frees has halted without a leak
C26_Freed ==
  /\ mir = RepeatProg
  /\ \E i \in Halted : hist.results[i].leaks = 0
  /\ hist.issued # <<>>

\* the most successors a terminator of the programs has
MaxSuccessors ==
  MaxOf(UNION {{Len(m.basic_blocks[b].terminator.targets) : b \in DOMAIN m.basic_blocks} :
               m \in Programs})

\* the most iterations of the loop a state with the budget s can cause: its own
\* step, and those of the successors it forks into
RECURSIVE Iterations(_)
Iterations(s) == IF s = 0 THEN 1 ELSE 1 + MaxSuccessors * Iterations(s - 1)

RECURSIVE Potential(_)
Potential(q) == IF q = <<>> THEN 0 ELSE Iterations(Head(q).steps_remaining) + Potential(Tail(q))

\* every iteration of the loop lowers the potential of the queue: the state
\* stepped continues or forks with a smaller budget, halts or fails
C29_Ranking ==
  [][ pc = "loop" /\ queue # <<>> => Potential(queue') < Potential(queue) ]_vars

\* C29: the loop terminates with an empty queue: every iteration lowers the
\* potential of the queue, which the step limit and the number of successors of
\* a fork bound, and the loop is left only when the queue is empty
C29_Terminates ==
  [][ pc = "loop" =>
        /\ queue # <<>> => Potential(queue') < Potential(queue)
        /\ pc' # "loop" => queue' = <<>> ]_vars

\* the loop has ended in a panic with a state left in the queue
C29_Abandoned ==
  /\ pc = "panicked" /\ hist.steps > 0
  /\ queue # <<>>
  /\ hist.lastStep.tag = "fork"

\* the loop has run to the end of a program that forks
C29_Drained ==
  /\ pc = "done" /\ queue = <<>>
  /\ hist.forks > 0
  /\ Len(hist.results) > 1

\* C30: every successor state of a fork starts with the steps_remaining and the
\* stack_limit its parent had when it forked: the budget is neither reset to
\* step_limit nor divided among the successors
C30_Inherited ==
  hist.forks > 0 =>
    /\ hist.lastFork.children # <<>>
    /\ \A i \in DOMAIN hist.lastFork.children :
         /\ hist.lastFork.children[i].steps_remaining = hist.lastFork.steps_remaining
         /\ hist.lastFork.children[i].stack_limit = hist.lastFork.stack_limit
         /\ hist.lastFork.children[i].stack_limit = limits.stack_limit
    /\ hist.lastFork.steps_remaining < limits.step_limit
    /\ \A j \in DOMAIN queue :
         queue[j].id \in {hist.lastFork.children[i].id : i \in DOMAIN hist.lastFork.children}
           /\ queue[j].executed = 0 /\ queue[j].parent = hist.lastFork.parent =>
           queue[j].steps_remaining = hist.lastFork.steps_remaining

\* a state that had spent part of its budget has forked into two successors,
\* each with all of the budget that was left
C30_Witness ==
  /\ hist.forks > 0
  /\ Len(hist.lastFork.children) = 2
  /\ hist.lastFork.steps_remaining > 1
  /\ hist.lastFork.steps_remaining + 1 < limits.step_limit
  /\ \A i \in DOMAIN hist.lastFork.children :
       hist.lastFork.children[i].steps_remaining = hist.lastFork.steps_remaining

----------------------------------------------------------------------------
(* Intrinsics and operators on symbolic operands (terminator/intrinsic.rs, *)
(* operator.rs).  One operation is applied to the operands chosen at the   *)
(* start, in a frame over a memory with two boxes of a u32; a pointer that *)
(* the operation left in the destination can then be dereferenced.         *)

\* size_of::<u32>()
U32Size == 4

BoxLen == U32Size

\* the symbol of the byte input[0]
Input == Abstract(1)

Num(v) == Bytes(ToBytes(v, U128Len))

\* two values written to one allocation by write_pair_to_ptr
PairVal(a, b) == [t |-> "Pair", n |-> <<a, b>>]

\* let a = Box::new(7u32); let b = Box::new(9u32);
CallMemory ==
  [allocs |-> (1 :> [len |-> BoxLen, val |-> Num(7), static |-> FALSE, mutable |-> TRUE])
              @@ (2 :> [len |-> BoxLen, val |-> Num(9), static |-> FALSE, mutable |-> TRUE]),
   constraints |-> <<>>]

\* Memory::read of size bytes at ptr: the allocation is live and holds
\* ptr.offset + size bytes
read(c, p, size) ==
  IF p.alloc_id \notin DOMAIN c.memory.allocs
  THEN [val |-> Undef, err |-> "DanglingPointerDeref", oob |-> <<>>]
  ELSE IF p.offset + size > c.memory.allocs[p.alloc_id].len
  THEN [val |-> Undef, err |-> "PointerOutOfBounds",
        oob |-> [ptr |-> p, size |-> size,
                 allocation_size |-> c.memory.allocs[p.alloc_id].len]]
  ELSE LET v == c.memory.allocs[p.alloc_id].val IN
       [val |-> IF v.t = "Bytes"
                THEN Bytes(AsU128(SubSeq(v.n, p.offset + 1, p.offset + size), FALSE))
                ELSE v,
        err |-> "", oob |-> <<>>]

\* read_value and try_read_value of a primitive of size bytes: a pointer that is
\* not concrete reads nothing, which read_value takes for a bug
read_value(c, p, size) ==
  IF p.sbytes # 0 THEN [val |-> Undef, err |-> Bug, oob |-> <<>>]
  ELSE read(c, p, size)

\* PrimVal::to_i128 as i64, for the numbers between -2^23 and 2^23
to_i64(bytes) ==
  Unsigned(SubSeq(bytes, 1, 3)) - (IF 2 * bytes[8] > U8Max THEN Unsigned(<<0, 0, 0, 1>>) ELSE 0)

\* pointer_offset that refuses an offset outside the allocation
pointer_offset_checked(c, p, pointee_size, offset) ==
  IF p.alloc_id \in DOMAIN c.memory.allocs
     /\ p.offset + offset * pointee_size >= c.memory.allocs[p.alloc_id].len
  THEN [val |-> Undef, err |-> "PointerOutOfBounds"]
  ELSE [val |-> Ptr(Pointer(p.alloc_id, p.offset + offset * pointee_size)), err |-> ""]

\* pointer_offset: ptr.signed_offset(offset * pointee_size), unchecked
pointer_offset(c, p, pointee_size, offset) ==
  [val |-> Ptr(Pointer(p.alloc_id, p.offset + offset * pointee_size)), err |-> ""]

\* "assume" that accepts every condition
intrinsic_assume_anything(c, i) == c

\* the intrinsic "assume"
intrinsic_assume(c, i) ==
  CASE i.left.t = "Undef" -> [c EXCEPT !.err = "ReadUndefBytes"]
    [] i.left.t = "Bytes" /\ Unsigned(i.left.n) = 0 -> [c EXCEPT !.err = "AssumptionNotHeld"]
    [] i.left.t = "Bytes" /\ Unsigned(i.left.n) = 1 -> c
    [] OTHER -> [c EXCEPT !.err = "InvalidBool"]

\* the intrinsics atomic_cxchg*: i.left is the pointer, i.right the expected
\* value and i.third the new value
intrinsic_atomic_cxchg(c, i, dest) ==
  LET old == read_value(c, i.left.n, U32Size)
      eq == binary_op(c, "Eq", old.val, i.kind, i.right, i.kind)
      c1 == force_allocation_local(eq.c, dest, 2 * U32Size)
      c2 == write_primval_mem(c1, c1.last_alloc, PairVal(old.val, eq.val), 2 * U32Size)
  IN IF old.err # "" THEN [c EXCEPT !.err = old.err]
     ELSE IF eq.err # "" THEN [eq.c EXCEPT !.err = eq.err]
     ELSE IF c2.err # "" THEN c2
     ELSE write_primval_mem(c2, i.left.n.alloc_id, i.third, U32Size)

\* "offset" that takes the offset for a number of bytes
intrinsic_offset_in_bytes(c, i, dest) ==
  IF is_concrete(i.right) /\ is_concrete(i.left)
  THEN IF i.right.t = "Undef" THEN [c EXCEPT !.err = "ReadUndefBytes"]
       ELSE write_value_local(c, dest, ByVal(pointer_offset(c, i.left.n, 1, to_i64(i.right.n)).val))
  ELSE LET new_offset == add_binop_constraint(c, "Add", offset_primval(i.left.n), i.right, "U64")
       IN write_value_local(new_offset.c, dest,
                            ByVal(Ptr(new_abstract(i.left.n.alloc_id, new_offset.val.n))))

\* the intrinsic "offset": i.left is the pointer, i.right the offset and
\* i.size the size of the pointee type
intrinsic_offset(c, i, dest) ==
  IF is_concrete(i.right) /\ is_concrete(i.left)
  THEN IF i.right.t = "Undef" THEN [c EXCEPT !.err = "ReadUndefBytes"]
       ELSE LET r == pointer_offset(c, i.left.n, i.size, to_i64(i.right.n)) IN
            IF r.err # "" THEN [c EXCEPT !.err = r.err]
            ELSE write_value_local(c, dest, ByVal(r.val))
  ELSE LET byte_offset == add_binop_constraint(c, "Mul", Num(i.size), i.right, "U64")
           new_offset == add_binop_constraint(byte_offset.c, "Add", offset_primval(i.left.n),
                                              byte_offset.val, "U64")
       IN IF new_offset.val.t = "Abstract"
          THEN write_value_local(new_offset.c, dest,
                                 ByVal(Ptr(new_abstract(i.left.n.alloc_id, new_offset.val.n))))
          ELSE [new_offset.c EXCEPT !.err = Bug]

\* call_intrinsic: the intrinsic, and then the jump to the target block
call_intrinsic(c, i, dest, target) ==
  LET r == CASE i.name = "assume" -> intrinsic_assume(c, i)
             [] i.name = "atomic_cxchg" -> intrinsic_atomic_cxchg(c, i, dest)
             [] i.name = "offset" -> intrinsic_offset(c, i, dest)
             [] OTHER -> [c EXCEPT !.err = "Unimplemented"]
  IN IF r.err # "" THEN r ELSE [r EXCEPT !.stack = goto_block(@, target)]

\* Rvalue::UnaryOp
eval_unary_op(c, i, dest) ==
  LET r == unary_op(c, i.bin_op, i.left, i.kind, i.checks) IN
  IF r.err # "" THEN [r.c EXCEPT !.err = r.err]
  ELSE write_value_local(r.c, dest, ByVal(r.val))

\* the operands
BinOps == {"Add", "Sub", "Mul", "Div", "Rem", "Eq", "Ne", "BitOr", "BitAnd", "BitXor"}
            \cup Comparisons

\* pointers into the two boxes, at a concrete or at a symbolic offset
CallPointers ==
  {Ptr(Pointer(a, off)) : a \in 1..2, off \in {0, BoxLen}}
    \cup {Ptr(new_abstract(a, Input.n)) : a \in 1..2}

Mixed == CallPointers \cup {Input, Undef, Num(0), Num(1), Num(BoxLen)}

Input_(name, bin_op, kind, left, right, third, size, checks) ==
  [name |-> name, bin_op |-> bin_op, kind |-> kind, left |-> left, right |-> right,
   third |-> third, size |-> size, checks |-> checks]

CallInputs ==
  UNION {{Input_("binary_op", o, k, l, r, Undef, 0, FALSE) :
            o \in BinOps, l \in Operands(k), r \in Operands(k)} : k \in {"I8", "U8", "I16"}}
    \cup {Input_("binary_op", o, k, l, r, Undef, 0, FALSE) :
            o \in BinOps, k \in {"Ptr", "U64"}, l \in Mixed, r \in Mixed}
    \cup UNION {{Input_("unary_op", o, k, l, Undef, Undef, 0, b) :
                   o \in {"Not", "Neg"}, l \in Operands(k) \cup Mixed, b \in BOOLEAN} :
                k \in {"I8", "U8", "I16"}}
    \cup {Input_("unary_op", "Not", "Bool", l, Undef, Undef, 0, FALSE) :
            l \in {Num(0), Num(1), Input}}
    \cup {Input_("assume", "", "Bool", l, Undef, Undef, 0, FALSE) :
            l \in {Num(0), Num(1), Undef}}
    \cup {Input_("atomic_cxchg", "", "U32", l, r, t, U32Size, FALSE) :
            l \in CallPointers, r \in {Num(7), Num(9), Undef}, t \in {Num(7), Num(5)}}
    \cup {Input_("offset", "", "Ptr", l, r, Undef, s, FALSE) :
            l \in CallPointers, r \in {Num(0), Num(1), Num(2), Input}, s \in {1, U32Size}}
    \cup {Input_("offset", "", "Ptr", l, Undef, Undef, U32Size, FALSE) :
            l \in {Ptr(Pointer(1, 0))}}

\* the frame stands at the terminator of its first block
CallStack ==
  <<[NewFrame(FrameMir, LvPtr(ZstAllocId), CleanupNone) EXCEPT
       !.stmt = Len(FrameMir.basic_blocks[1].statements)]>>

CallInit ==
  /\ pc = "call"
  /\ mir = FrameMir
  /\ limits = [step_limit |-> MaxStepLimit, stack_limit |-> DefaultStackLimit]
  /\ queue = <<new_ecx(limits, 1)>>
  /\ mems = (1 :> CallMemory)
  /\ globs = (1 :> <<>>)
  /\ stacks = (1 :> CallStack)
  /\ next_ref = 2
  /\ next_alloc_id = 3
  /\ ptr = <<>>
  /\ \E i \in CallInputs : hist = [op |-> "input", in |-> i, err |-> "", oob |-> <<>>]

\* the operation op has left the context r; a panic ends the interpreter
CallApplied(op, r, oob) ==
  /\ pc' = IF r.err \in Panics THEN "panicked" ELSE pc
  /\ mems' = [mems EXCEPT ![1] = r.memory]
  /\ stacks' = [stacks EXCEPT ![1] = r.stack]
  /\ next_alloc_id' = r.next_id
  /\ hist' = [hist EXCEPT !.op = op, !.err = r.err, !.oob = oob]
  /\ UNCHANGED <<mir, limits, queue, globs, next_ref, ptr>>

\* Rvalue::BinaryOp
EvalBinaryOp ==
  /\ pc = "call" /\ hist.op = "input" /\ hist.in.name = "binary_op"
  /\ \E r \in {intrinsic_overflowing(Cur, hist.in, 1)} : CallApplied("binary_op", r, <<>>)

\* Rvalue::UnaryOp
EvalUnaryOp ==
  /\ pc = "call" /\ hist.op = "input" /\ hist.in.name = "unary_op"
  /\ \E r \in {eval_unary_op(Cur, hist.in, 1)} : CallApplied("unary_op", r, <<>>)

\* a call of an intrinsic, with the second block as its target
CallIntrinsic ==
  /\ pc = "call" /\ hist.op = "input"
  /\ hist.in.name \in {"assume", "atomic_cxchg", "offset"}
  /\ \E r \in {call_intrinsic(Cur, hist.in, 1, 2)} : CallApplied(hist.in.name, r, <<>>)

\* the pointer that "offset" left in the destination is dereferenced: a value
\* of the pointee type is read through it into the second local
Deref ==
  /\ pc = "call" /\ hist.op = "offset" /\ hist.err = ""
  /\ \E v \in {read_value(Cur, frame(Cur).locals[1].p1.n, hist.in.size)} :
       CallApplied("deref",
                   IF v.err # "" THEN [Cur EXCEPT !.err = v.err]
                   ELSE write_value_local(Cur, 2, ByVal(v.val)),
                   v.oob)

CallNext ==
  \/ EvalBinaryOp
  \/ EvalUnaryOp
  \/ CallIntrinsic
  \/ Deref

CallSpec == CallInit /\ [][CallNext]_vars

----------------------------------------------------------------------------
(* Properties of the intrinsics and of the operators on symbolic operands *)

BinaryDone == hist.op = "binary_op"

Symbolic(val) == ~is_concrete(val)

\* the constraint store is as it was before the operation
StoreUnchanged == mems[1].constraints = CallMemory.constraints

\* two pointers into different allocations, one of them at a symbolic offset
AcrossSymbolic ==
  /\ hist.in.left.t = "Ptr" /\ hist.in.right.t = "Ptr"
  /\ hist.in.left.n.alloc_id # hist.in.right.n.alloc_id
  /\ Symbolic(hist.in.left) \/ Symbolic(hist.in.right)

\* C21: a binary operation on two pointers into different allocations, at least
\* one of them at a symbolic offset, fails with InvalidPointerMath whatever the
\* operator, and leaves the constraint store unchanged
C21_FailFast ==
  BinaryDone /\ AcrossSymbolic =>
    /\ pc = "call"
    /\ hist.err = "InvalidPointerMath"
    /\ StoreUnchanged

\* the comparison of two such pointers has ended the interpreter
C21_Aborted ==
  /\ BinaryDone /\ AcrossSymbolic
  /\ hist.in.bin_op = "Lt"
  /\ pc = "panicked" /\ hist.err = NotYetImplemented

\* atomic_cxchg has returned Ok
CxchgDone == pc = "call" /\ hist.op = "atomic_cxchg" /\ hist.err = ""

\* the value at the pointer before the call, and after it
Old == CallMemory.allocs[hist.in.left.n.alloc_id].val

Now == mems[1].allocs[hist.in.left.n.alloc_id].val

\* the pair the call returned through its destination
Returned == mems[1].allocs[stacks[1][1].locals[1].p1.n].val

\* C22: atomic_cxchg(ptr, expected, new) returns (old, old == expected), where
\* old is the value at ptr before the call; it stores new at ptr when old ==
\* expected, and leaves the memory at ptr unchanged when old differs from expected
C22_CompareAndSwap ==
  CxchgDone =>
    /\ Returned = PairVal(Old, from_bool(Old = hist.in.right))
    /\ Now = IF Old = hist.in.right THEN hist.in.third ELSE Old

\* the value at the pointer differed from the expected one, and the new value
\* was stored all the same
C22_StoredOnMismatch ==
  /\ CxchgDone
  /\ Old # hist.in.right
  /\ Returned = PairVal(Old, from_bool(FALSE))
  /\ Now = hist.in.third /\ Now # Old

AssumeDone == hist.op = "assume"

Intrinsics == {"assume", "atomic_cxchg", "offset"}

\* C23: assume(false) fails with AssumptionNotHeld and leaves the frame at the
\* call; assume(true) changes nothing but the position of the frame, which is the
\* start of the target block; and no call of an intrinsic pushes a stack frame
C23_Assume ==
  /\ AssumeDone /\ hist.in.left = Num(0) =>
       /\ pc = "call" /\ hist.err = "AssumptionNotHeld"
       /\ stacks[1] = CallStack
  /\ AssumeDone /\ hist.in.left = Num(1) =>
       /\ pc = "call" /\ hist.err = ""
       /\ mems[1] = CallMemory /\ globs[1] = <<>> /\ next_alloc_id = 3
       /\ stacks[1] = goto_block(CallStack, 2)
       /\ stacks[1] # CallStack
  /\ hist.op \in Intrinsics => Len(stacks[1]) = Len(CallStack)

\* assume(false) has failed
C23_Witness ==
  /\ AssumeDone /\ hist.in.left = Num(0)
  /\ hist.err = "AssumptionNotHeld"
  /\ stacks[1][1].block = 1

\* assume(true) has moved the frame to the target block
C23_Held ==
  /\ AssumeDone /\ hist.in.left = Num(1)
  /\ stacks[1][1].block = 2 /\ stacks[1][1].stmt = 0

\* "offset" has returned
OffsetDone == pc = "call" /\ hist.op = "offset"

\* the pointer the call wrote to its destination
NewPtr == stacks[1][1].locals[1].p1.n

\* the number a value stands for when input[0] is x: the constraints of the
\* store define the symbols after the first
RECURSIVE SymValue(_, _, _)
SymValue(store, val, x) ==
  IF val.t = "Bytes" THEN Unsigned(SubSeq(val.n, 1, 3))
  ELSE IF val = Input THEN x
  ELSE LET k == store[val.n - 1] IN
       IF k.op = "Mul" THEN SymValue(store, k.left, x) * SymValue(store, k.right, x)
       ELSE SymValue(store, k.left, x) + SymValue(store, k.right, x)

\* C24: "offset" with a symbolic offset operand, or on a pointer at a symbolic
\* offset, writes a pointer into the same allocation whose offset is symbolic and
\* equals old_offset + size_of(T) * offset whatever input[0] is; with both concrete
\* it writes the pointer at the concrete offset old_offset + size_of(T) * offset
C24_Offset ==
  OffsetDone /\ hist.in.right.t # "Undef" =>
    /\ hist.err = ""
    /\ stacks[1][1].locals[1].tag = "ByVal" /\ stacks[1][1].locals[1].p1.t = "Ptr"
    /\ NewPtr.alloc_id = hist.in.left.n.alloc_id
    /\ IF Symbolic(hist.in.left) \/ Symbolic(hist.in.right)
       THEN /\ NewPtr.sbytes # 0
            /\ \A x \in 0..U8Max :
                 SymValue(mems[1].constraints, offset_primval(NewPtr), x)
                   = SymValue(mems[1].constraints, offset_primval(hist.in.left.n), x)
                       + hist.in.size * SymValue(mems[1].constraints, hist.in.right, x)
       ELSE /\ NewPtr.sbytes = 0
            /\ NewPtr.offset = hist.in.left.n.offset + hist.in.size * to_i64(hist.in.right.n)

\* a pointer to u32 at the concrete offset 4 has been offset by input[0]
C24_Witness ==
  /\ OffsetDone /\ hist.err = ""
  /\ hist.in.left = Ptr(Pointer(1, BoxLen)) /\ hist.in.right = Input /\ hist.in.size = U32Size
  /\ NewPtr.sbytes # 0
  /\ Len(mems[1].constraints) = 2

\* a pointer at a symbolic offset has been offset by a number
C24_SymbolicPointer ==
  /\ OffsetDone /\ hist.err = ""
  /\ Symbolic(hist.in.left) /\ hist.in.right = Num(2) /\ hist.in.size = U32Size
  /\ NewPtr.sbytes # 0
  /\ Len(mems[1].constraints) = 1

\* a pointer to u32 at a concrete offset has been offset by a number
C24_Concrete ==
  /\ OffsetDone /\ hist.err = ""
  /\ hist.in.left = Ptr(Pointer(1, 0)) /\ hist.in.right = Num(2) /\ hist.in.size = U32Size
  /\ NewPtr = Pointer(1, 2 * U32Size)

\* the pointer left by "offset" has been dereferenced
DerefDone == hist.op = "deref"

\* C25: for `let b = Box::new(7u32); *b.offset(1)` the offset computation
\* succeeds and the dereference fails with PointerOutOfBounds carrying the pointer
\* at offset 4, the access size 4 and the allocation size 4; and a dereference
\* succeeds only if offset + size is at most the length of the allocation
C25_Bounds ==
  /\ OffsetDone /\ Symbolic(hist.in.left) = FALSE /\ hist.in.right \in {Num(0), Num(1), Num(2)} =>
       hist.err = ""
  /\ DerefDone /\ hist.in.left = Ptr(Pointer(1, 0)) /\ hist.in.right = Num(1)
       /\ hist.in.size = U32Size =>
       /\ hist.err = "PointerOutOfBounds"
       /\ hist.oob = [ptr |-> Pointer(1, U32Size), size |-> U32Size, allocation_size |-> BoxLen]
       /\ stacks[1][1].locals[2] = ByVal(Undef)
  /\ DerefDone /\ hist.err = "" =>
       /\ NewPtr.sbytes = 0
       /\ NewPtr.offset + hist.in.size <= mems[1].allocs[NewPtr.alloc_id].len
  /\ DerefDone /\ NewPtr.sbytes = 0
       /\ NewPtr.offset + hist.in.size > mems[1].allocs[NewPtr.alloc_id].len =>
       hist.err = "PointerOutOfBounds"

\* *b.offset(1) has failed
C25_Witness ==
  /\ DerefDone /\ hist.in.left = Ptr(Pointer(1, 0)) /\ hist.in.right = Num(1)
  /\ hist.in.size = U32Size
  /\ hist.err = "PointerOutOfBounds"
  /\ hist.oob.ptr.offset = 4 /\ hist.oob.size = 4 /\ hist.oob.allocation_size = 4

\* a byte inside the box has been read
C25_InBounds ==
  /\ DerefDone /\ hist.err = ""
  /\ NewPtr = Pointer(1, 2) /\ hist.in.size = 1
  /\ stacks[1][1].locals[2] = ByVal(Num(0))

\* both operands are concrete integers
ConcreteInts == hist.in.left.t = "Bytes" /\ hist.in.right.t = "Bytes"

\* an integer is added to a pointer at a concrete offset
PtrPlusInt ==
  /\ hist.in.bin_op = "Add"
  /\ hist.in.left.t = "Ptr" /\ hist.in.left.n.sbytes = 0
  /\ hist.in.right.t = "Bytes"

\* C27: binary_op ends in Ok or in an EvalError, never in an abort of the
\* interpreter, for every operator on two concrete integers -- Div and Rem by
\* zero included -- and for the addition of an integer to a pointer, also when
\* the sum leaves the allocation
C27_NoAbort ==
  BinaryDone /\ (ConcreteInts \/ PtrPlusInt) =>
    /\ pc = "call"
    /\ hist.err \notin Panics

\* a division of two concrete integers by zero has ended the interpreter
C27_DivideByZero ==
  /\ BinaryDone /\ ConcreteInts
  /\ hist.in.bin_op = "Div" /\ hist.in.kind = "U8"
  /\ hist.in.left = Num(1) /\ hist.in.right = Num(0)
  /\ pc = "panicked" /\ hist.err = DivideByZero

\* the sum of a pointer and an integer has left the allocation and ended the
\* interpreter
C27_LeavesAllocation ==
  /\ BinaryDone /\ PtrPlusInt
  /\ hist.in.left = Ptr(Pointer(1, 0)) /\ hist.in.right = Num(BoxLen)
  /\ pc = "panicked" /\ hist.err = NotYetImplemented

\* the operations on two concrete integers that do not divide by zero return
C27_OtherOps ==
  BinaryDone /\ ConcreteInts
    /\ ~(hist.in.bin_op \in {"Div", "Rem"}
         /\ Unsigned(SubSeq(hist.in.right.n, 1, num_bytes(hist.in.kind))) = 0) =>
    pc = "call"

\* a binary or a unary operation has been evaluated
OpDone == hist.op \in {"binary_op", "unary_op"}

Binary == hist.in.name = "binary_op"

\* every operand is a concrete PrimVal::Bytes
AllBytes == hist.in.left.t = "Bytes" /\ (Binary => hist.in.right.t = "Bytes")

\* C28: a binary or unary operation on concrete Bytes is computed directly: its
\* result is concrete and the constraint store is left unchanged; the store is
\* extended only when an operand is Abstract or a pointer at a symbolic offset
C28_ConcreteDirect ==
  /\ OpDone /\ AllBytes =>
       /\ StoreUnchanged
       /\ hist.err = "" =>
            /\ stacks[1][1].locals[1].tag = "ByVal"
            /\ stacks[1][1].locals[1].p1.t = "Bytes"
  /\ OpDone /\ ~StoreUnchanged =>
       \/ Symbolic(hist.in.left)
       \/ Binary /\ Symbolic(hist.in.right)

\* -1i8 has been negated and 2u8 ^ 1u8 computed, with nothing recorded
C28_Witness ==
  /\ OpDone /\ AllBytes /\ hist.err = "" /\ StoreUnchanged
  /\ \/ /\ hist.in.name = "unary_op" /\ hist.in.bin_op = "Neg" /\ hist.in.kind = "I8"
        /\ hist.in.left = Bytes(AsU128(<<U8Max>>, TRUE))
        /\ stacks[1][1].locals[1] = ByVal(Num(1))
     \/ /\ Binary /\ hist.in.bin_op = "BitXor" /\ hist.in.kind = "U8"
        /\ hist.in.left = Num(2) /\ hist.in.right = Num(1)
        /\ stacks[1][1].locals[1] = ByVal(Num(3))

\* an operation on the symbolic byte has extended the store by one constraint
C28_Recorded ==
  /\ OpDone /\ hist.err = ""
  /\ hist.in.left = Input
  /\ Len(mems[1].constraints) = 1
  /\ stacks[1][1].locals[1] = ByVal(Abstract(mems[1].constraints[1].result))

----------------------------------------------------------------------------
(* Slots of locals and globals (eval_context.rs, terminator/intrinsic.rs): *)
(* writes by value and by reference, the intrinsics "init" and "uninit",   *)
(* force_allocation, and the initialization of a global, applied in any    *)
(* order to a context that has its first frame.                            *)

\* the operations of one run on the slots
MaxSlotOps == 4

\* the type of a local of FrameMir: local 1 is an integer, local 2 a structure
\* of one byte that is not read as a primitive, the last local is zero-sized
LocalTy(l) == Ty(SizeOf(l), l = 1)

\* Memory::write_repeat of size bytes b, and Memory::mark_definedness(_, _, false)
fill(c, a, p, size) ==
  IF size = 0 THEN c
  ELSE IF a \notin DOMAIN c.memory.allocs THEN [c EXCEPT !.err = "DanglingPointerDeref"]
  ELSE IF ~c.memory.allocs[a].mutable THEN [c EXCEPT !.err = "ModifiedConstantMemory"]
  ELSE [c EXCEPT !.memory.allocs[a].val = p]

\* the closure of the intrinsic "init": the context and the value it returns
init(c, val, ty) ==
  CASE val.tag = "ByRef" -> [c |-> fill(c, val.p1.n, Bytes(0), ty.size), val |-> val]
    [] val.tag = "ByVal" /\ val.p1.t = "Undef" /\ ~ty.prim ->
         LET c1 == allocate(c, ty.size, Undef) IN
         [c |-> fill(c1, c1.last_alloc, Bytes(0), ty.size), val |-> ByRef(c1.last_alloc)]
    [] val.tag = "ByVal" -> [c |-> c, val |-> ByVal(Bytes(0))]
    [] OTHER -> [c |-> c, val |-> ByValPair(Bytes(0), Bytes(0))]

\* the closure of the intrinsic "uninit"
uninit(c, val, ty) ==
  IF val.tag = "ByRef" THEN [c |-> fill(c, val.p1.n, Undef, ty.size), val |-> val]
  ELSE [c |-> c, val |-> ByVal(Undef)]

Closure(f, c, val, ty) == IF f = "init" THEN init(c, val, ty) ELSE uninit(c, val, ty)

\* modify_local(frame, local, None, f)
modify_local(c, f, local, closure) ==
  LET r == Closure(closure, c, c.stack[f].locals[local], LocalTy(local)) IN
  IF r.c.err # "" THEN r.c ELSE [r.c EXCEPT !.stack[f].locals[local] = r.val]

\* modify_global(cid, f) for the closures of "init" and "uninit"
modify_global_closure(c, cid, closure) ==
  LET val == c.globals[cid] IN
  IF ~val.mutable THEN [c EXCEPT !.err = "ModifiedConstantMemory"]
  ELSE LET r == Closure(closure, c, val.value, val.ty) IN
       IF r.c.err # "" THEN r.c ELSE [r.c EXCEPT !.globals[cid] = [val EXCEPT !.value = r.val]]

\* Memory::mark_static
mark_static(c, a) ==
  IF a \in DOMAIN c.memory.allocs THEN [c EXCEPT !.memory.allocs[a].static = TRUE] ELSE c

\* a force_allocation that leaves the allocation of the global an ordinary one
force_allocation_global_unmarked(c, cid) ==
  LET global_val == c.globals[cid] IN
  IF global_val.value.tag = "ByRef" THEN [c EXCEPT !.last_alloc = global_val.value.p1.n]
  ELSE LET c1 == allocate(c, global_val.ty.size, Undef)
           c3 == write_value_to_ptr(c1, global_val.value, c1.last_alloc, global_val.ty.size)
       IN IF c3.err # "" THEN c3
          ELSE [c3 EXCEPT !.globals[cid] = [global_val EXCEPT !.value = ByRef(c1.last_alloc)]]

\* force_allocation on Lvalue::Global; c.last_alloc is the pointer of the result
force_allocation_global(c, cid) ==
  LET global_val == c.globals[cid] IN
  IF global_val.value.tag = "ByRef" THEN [c EXCEPT !.last_alloc = global_val.value.p1.n]
  ELSE LET c1 == allocate(c, global_val.ty.size, Undef)
           c2 == mark_static(c1, c1.last_alloc)
           c3 == write_value_to_ptr(c2, global_val.value, c1.last_alloc, global_val.ty.size)
           c4 == IF c3.err = "" /\ global_val.initialized
                 THEN mark_static_initalized(c3, c1.last_alloc, global_val.mutable)
                 ELSE c3
       IN IF c4.err # "" THEN c4
          ELSE [c4 EXCEPT !.globals[cid] = [global_val EXCEPT !.value = ByRef(c1.last_alloc)]]

\* a context with the frame of the entry function
SlotInit ==
  /\ pc = "frames"
  /\ mir = FrameMir
  /\ limits = [step_limit |-> MaxStepLimit, stack_limit |-> MaxDepth]
  /\ queue = <<new_ecx(limits, 1)>>
  /\ mems = (1 :> NewMemory)
  /\ globs = (1 :> <<>>)
  /\ stacks = (1 :> <<NewFrame(FrameMir, LvPtr(ZstAllocId), CleanupNone)>>)
  /\ next_ref = 2
  /\ next_alloc_id = 1
  /\ ptr = <<>>
  /\ hist = [op |-> "push", arg |-> CleanupNone, freed |-> {}, backing |-> {}, sealed |-> {},
             n |-> 0,
             pre |-> Snapshot(Ctx([mems |-> (1 :> NewMemory), globs |-> (1 :> <<>>),
                                   stacks |-> (1 :> <<>>)], new_ecx(limits, 1))),
             post |-> Snapshot(Ctx([mems |-> (1 :> NewMemory), globs |-> (1 :> <<>>),
                                    stacks |-> (1 :> <<NewFrame(FrameMir, LvPtr(ZstAllocId),
                                                               CleanupNone)>>)],
                                   new_ecx(limits, 1)))]

SlotRunning == Running /\ hist.n < MaxSlotOps

\* the lvalues a write can name: a local of a frame, a cached global, a live allocation
Dests ==
  {LvLocal(f, l) : f \in DOMAIN stacks[1], l \in Locals}
    \cup {LvGlobal(cid) : cid \in DOMAIN globs[1]}
    \cup {LvPtr(a) : a \in DOMAIN mems[1].allocs}

TyOf(dest) ==
  CASE dest.kind = "Local" -> LocalTy(dest.n)
    [] dest.kind = "Global" -> globs[1][dest.n].ty
    [] OTHER -> IntTy

\* the values of the type ty a program writes: an integer, or a value held in memory
Sources(ty) ==
  IF ty.size = 0 THEN {ByVal(Undef), ByRef(ZstAllocId)}
  ELSE {ByVal(Bytes(1))} \cup {ByRef(a) : a \in DOMAIN mems[1].allocs}

SPush == SlotRunning /\ FPush

SPushStatic == SlotRunning /\ FPushStatic

SPop == SlotRunning /\ FPop

SWriteValue ==
  /\ SlotRunning
  /\ \E dest \in Dests :
       \E src_val \in Sources(TyOf(dest)) :
         \E r \in {write_value(Cur, src_val, dest, TyOf(dest))} :
           Applied("write_value", [src |-> src_val, dest |-> dest], r, {})

\* the intrinsics "init" and "uninit" on a local of the current frame
SModifyLocal ==
  /\ SlotRunning /\ InFrame /\ MayAllocate
  /\ \E l \in Locals, closure \in {"init", "uninit"} :
       \E r \in {modify_local(Cur, Len(stacks[1]), l, closure)} :
         Applied(closure, LvLocal(Len(stacks[1]), l), r, {})

\* the intrinsics "init" and "uninit" on a global
SModifyGlobal ==
  /\ SlotRunning
  /\ \E cid \in DOMAIN globs[1], closure \in {"init", "uninit"} :
       \E r \in {modify_global_closure(Cur, cid, closure)} :
         Applied(closure, LvGlobal(cid), r, {})

SForceLocal ==
  /\ SlotRunning /\ InFrame /\ MayAllocate
  /\ \E l \in Locals :
       \E r \in {force_allocation_local(Cur, l, SizeOf(l))} :
         Applied("force_allocation", LvLocal(Len(stacks[1]), l), r, {})

SForceGlobal ==
  /\ SlotRunning /\ MayAllocate
  /\ \E cid \in DOMAIN globs[1] :
       \E r \in {force_allocation_global(Cur, cid)} :
         Applied("force_allocation", LvGlobal(cid), r, {})

SlotNext ==
  \/ SPush
  \/ SPushStatic
  \/ SPop
  \/ SWriteValue
  \/ SModifyLocal
  \/ SModifyGlobal
  \/ SForceLocal
  \/ SForceGlobal

SlotSpec == SlotInit /\ [][SlotNext]_vars

----------------------------------------------------------------------------
(* Properties of the slots *)

\* the value of the slot the lvalue names in a snapshot
Slot(s, dest) ==
  IF dest.kind = "Local" THEN s.stack[dest.frame].locals[dest.n] ELSE s.globals[dest.n].value

\* what write_value_to_ptr stores for the source value
Stored(s, src_val) ==
  IF src_val.tag = "ByRef" THEN s.memory.allocs[src_val.p1.n].val ELSE src_val.p1

\* the last operation was a successful write_value to a local or global
SlotWritten ==
  /\ hist.op = "write_value"
  /\ hist.arg.dest.kind \in {"Local", "Global"}
  /\ hist.post.err = ""

\* C31: a write to a local or global whose slot holds ByRef(p) stores the value
\* in the allocation p and leaves the slot ByRef(p); and whatever the operation
\* (write_value, init, uninit, force_allocation, a call or a return), a local
\* of a frame that is still on the stack that was ByRef(p) is ByRef(p) after it
C31_ByRefStays ==
  /\ SlotWritten /\ Slot(hist.pre, hist.arg.dest).tag = "ByRef" =>
       /\ Slot(hist.post, hist.arg.dest) = Slot(hist.pre, hist.arg.dest)
       /\ TyOf(hist.arg.dest).size > 0 =>
            hist.post.memory.allocs[Slot(hist.pre, hist.arg.dest).p1.n].val
              = Stored(hist.pre, hist.arg.src)
  /\ \A f \in DOMAIN hist.pre.stack \cap DOMAIN hist.post.stack :
       \A l \in Locals :
         hist.pre.stack[f].locals[l].tag = "ByRef" =>
           hist.post.stack[f].locals[l] = hist.pre.stack[f].locals[l]

\* a local backed by an allocation that held another value was written by value:
\* the allocation holds the new value and the local is still ByRef to it
C31_Witness ==
  /\ SlotWritten /\ hist.arg.dest.kind = "Local"
  /\ hist.arg.src = ByVal(Bytes(1))
  /\ Slot(hist.pre, hist.arg.dest).tag = "ByRef"
  /\ Slot(hist.post, hist.arg.dest) = Slot(hist.pre, hist.arg.dest)
  /\ hist.pre.memory.allocs[Slot(hist.pre, hist.arg.dest).p1.n].val # Bytes(1)
  /\ hist.post.memory.allocs[Slot(hist.pre, hist.arg.dest).p1.n].val = Bytes(1)

\* "init" ran on a local that was ByRef and left it ByRef
C31_InitKept ==
  /\ hist.op = "init" /\ hist.arg.kind = "Local" /\ hist.post.err = ""
  /\ hist.arg.n \in Sized
  /\ Slot(hist.pre, hist.arg).tag = "ByRef"
  /\ Slot(hist.post, hist.arg) = Slot(hist.pre, hist.arg)
  /\ hist.post.memory.allocs[Slot(hist.pre, hist.arg).p1.n].val = Bytes(0)

\* the last operation wrote a by-reference source into a slot that was not ByRef
ByValueCopy ==
  /\ SlotWritten
  /\ hist.arg.src.tag = "ByRef"
  /\ Slot(hist.pre, hist.arg.dest).tag # "ByRef"

\* the slot holds the primitive read from the allocation p
ReadFrom(p) ==
  /\ Slot(hist.post, hist.arg.dest) = ByVal(hist.pre.memory.allocs[p].val)
  /\ hist.post.memory = hist.pre.memory

\* the slot is ByRef to an allocation q made by the write, which holds what p
\* holds, and p is as it was
CopiedFrom(p, q) ==
  /\ Slot(hist.post, hist.arg.dest) = ByRef(q)
  /\ q # p
  /\ q \notin DOMAIN hist.pre.memory.allocs
  /\ q \in DOMAIN hist.post.memory.allocs
  /\ hist.post.memory.allocs[q].val = hist.pre.memory.allocs[p].val
  /\ \A a \in DOMAIN hist.pre.memory.allocs :
       hist.post.memory.allocs[a] = hist.pre.memory.allocs[a]

\* the claim as stated: whatever the type, the slot holds a primitive read from
\* p or ByRef to a fresh allocation different from p
C32_Original ==
  ByValueCopy =>
    \/ hist.arg.src.p1.n \in DOMAIN hist.pre.memory.allocs /\ ReadFrom(hist.arg.src.p1.n)
    \/ /\ Slot(hist.post, hist.arg.dest).tag = "ByRef"
       /\ Slot(hist.post, hist.arg.dest).p1.n # hist.arg.src.p1.n
       /\ Slot(hist.post, hist.arg.dest).p1.n \notin DOMAIN hist.pre.memory.allocs

\* C32: after write_value with source ByRef(p) into a slot that was not ByRef,
\* for a type of non-zero size the slot holds a primitive read from p or ByRef(q)
\* for a fresh allocation q different from p that holds a copy of p's bytes; for
\* a zero-sized type nothing is allocated and the slot is ByRef to the one
\* zero-sized pointer, which p may be as well
C32_NoAlias ==
  ByValueCopy =>
    IF TyOf(hist.arg.dest).size = 0
    THEN /\ Slot(hist.post, hist.arg.dest) = ByRef(ZstAllocId)
         /\ hist.post.memory = hist.pre.memory
    ELSE \/ ReadFrom(hist.arg.src.p1.n)
         \/ CopiedFrom(hist.arg.src.p1.n, Slot(hist.post, hist.arg.dest).p1.n)

\* a by-reference source was copied into a fresh allocation for the slot
C32_Witness ==
  /\ ByValueCopy
  /\ TyOf(hist.arg.dest).size > 0
  /\ CopiedFrom(hist.arg.src.p1.n, Slot(hist.post, hist.arg.dest).p1.n)
  /\ hist.pre.memory.allocs[hist.arg.src.p1.n].val = Bytes(1)

\* a primitive was read out of the source and written by value
C32_Primitive ==
  /\ ByValueCopy
  /\ TyOf(hist.arg.dest).size > 0
  /\ ReadFrom(hist.arg.src.p1.n)

\* a zero-sized value was written by reference: source and slot hold the same pointer
C32_ZeroSized ==
  /\ ByValueCopy
  /\ TyOf(hist.arg.dest).size = 0
  /\ Slot(hist.post, hist.arg.dest) = hist.arg.src

\* the global the last operation targeted: write_value, "init" or "uninit" on
\* Lvalue::Global, 0 when the operation was another one
Target ==
  CASE hist.op = "write_value" /\ hist.arg.dest.kind = "Global" -> hist.arg.dest.n
    [] hist.op \in {"init", "uninit"} /\ hist.arg.kind = "Global" -> hist.arg.n
    [] OTHER -> 0

\* the last operation targeted a global whose mutable flag is false
Rejected == Target # 0 /\ ~hist.pre.globals[Target].mutable

\* C33: a write_value or modify_global on a global whose mutable flag is false
\* fails with ModifiedConstantMemory and leaves the globals (value, type,
\* initialized and mutable of each), the memory and the stack as they were
C33_NoPartialWrite ==
  Rejected =>
    /\ hist.post.err = "ModifiedConstantMemory"
    /\ hist.post.globals = hist.pre.globals
    /\ hist.post.memory = hist.pre.memory
    /\ hist.post.stack = hist.pre.stack

\* a write_value to a sealed global was rejected
C33_Witness ==
  /\ Rejected /\ hist.op = "write_value"
  /\ hist.post.err = "ModifiedConstantMemory"
  /\ hist.pre.globals[Target].initialized

\* modify_global on a sealed global was rejected
C33_Modify ==
  /\ Rejected /\ hist.op = "init"
  /\ hist.post.err = "ModifiedConstantMemory"

\* the last operation popped a frame whose cleanup is MarkStatic for the global cid
SealOf(cid) ==
  /\ hist.op = "pop"
  /\ hist.pre.stack[Len(hist.pre.stack)].return_to_block.kind = "MarkStatic"
  /\ hist.pre.stack[Len(hist.pre.stack)].return_lvalue = LvGlobal(cid)

C34_WrittenLater ==
  /\ SlotWritten /\ hist.arg.dest = LvGlobal(1)
  /\ hist.pre.globals[1].initialized /\ hist.post.globals[1].initialized
  /\ hist.post.globals[1].value # hist.pre.globals[1].value

\* the last operation was a successful force_allocation on a global whose value
\* was not ByRef
Forced(cid) ==
  /\ hist.op = "force_allocation" /\ hist.arg = LvGlobal(cid)
  /\ hist.post.err = ""
  /\ hist.pre.globals[cid].value.tag # "ByRef"

\* the allocations that back a global sealed immutable
SealedBacking ==
  {hist.pre.globals[cid].value.p1.n :
     cid \in {g \in DOMAIN hist.pre.globals :
                /\ hist.pre.globals[g].value.tag = "ByRef"
                /\ hist.pre.globals[g].initialized /\ ~hist.pre.globals[g].mutable}}

C35_WriteRefused ==
  /\ hist.op = "write_value" /\ hist.arg.dest.kind = "Ptr"
  /\ hist.arg.dest.n \in SealedBacking
  /\ hist.post.err = "ModifiedConstantMemory"

\* the last operation was push_stack_frame
Pushed_ == hist.op = "push" /\ hist.n > 0

\* C40: push_stack_frame appends a frame at the start block and statement 0
\* with local_decls.len() - 1 slots, each ByVal(Undef), also when it returns
\* StackFrameLimitReached; the frames below, the memory and the globals that
\* were cached before the call are as they were
C40_FreshFrame ==
  Pushed_ =>
    /\ Len(hist.post.stack) = Len(hist.pre.stack) + 1
    /\ SubSeq(hist.post.stack, 1, Len(hist.pre.stack)) = hist.pre.stack
    /\ hist.post.stack[Len(hist.post.stack)].block = 1
    /\ hist.post.stack[Len(hist.post.stack)].stmt = 0
    /\ Len(hist.post.stack[Len(hist.post.stack)].locals) = mir.local_decls_len - 1
    /\ \A l \in DOMAIN hist.post.stack[Len(hist.post.stack)].locals :
         hist.post.stack[Len(hist.post.stack)].locals[l] = ByVal(Undef)
    /\ hist.post.stack[Len(hist.post.stack)].return_to_block = hist.arg
    /\ hist.post.memory = hist.pre.memory
    /\ \A cid \in DOMAIN hist.pre.globals :
         cid \in DOMAIN hist.post.globals /\ hist.post.globals[cid] = hist.pre.globals[cid]
    /\ hist.arg.kind # "MarkStatic" => hist.post.globals = hist.pre.globals
    /\ hist.post.err \in {"", "StackFrameLimitReached"}

\* a frame was pushed above a frame with a local backed by an allocation
C40_Witness ==
  /\ Pushed_ /\ hist.post.err = ""
  /\ Len(hist.post.stack) = 2
  /\ \E l \in Locals : hist.pre.stack[1].locals[l].tag = "ByRef"
  /\ hist.pre.memory.allocs # <<>>
  /\ \A l \in Locals : hist.post.stack[2].locals[l] = ByVal(Undef)

\* a frame was pushed beyond the limit: it is on the stack all the same
C40_OverLimit ==
  /\ Pushed_ /\ hist.post.err = "StackFrameLimitReached"
  /\ Len(hist.post.stack) = Len(hist.pre.stack) + 1

(* Operators on integers held as Bytes: the operands are drawn as the          *)
(* interpreter holds them (`v as u128`) and also zero-extended; the shifts      *)
(* take a right operand of a kind of its own; the Abstract operands are         *)
(* buffers of eight symbolic bytes.                                             *)

ScalarKinds == {"I8", "U8", "I16"}

\* the operands of kind k with the bytes above the width left at zero
ZeroExtended(k) == {Bytes(AsU128(ToBytes(v, num_bytes(k)), FALSE)) : v \in Corners}

\* shift amounts below, at and above the widths, and the -1 of a signed kind
ShiftAmounts ==
  {Num(0), Num(1), Num(7), Num(8), Num(9), Num(15), Num(16), Num(17), Num(24), Num(255),
   Num(256), Num(65543), Bytes(AsU128(ToBytes(0 - 1, 1), TRUE))}

\* the buffers of an Abstract of kind k: the low bytes are symbols of the input
AbstractOperands(k) ==
  {AbstractBuffer([idx \in 1..SBytesLen |->
                     IF idx <= num_bytes(k) THEN SymbolicByte(idx) ELSE Concrete(0)])}

ScalarInput(name, bin_op, kind, right_kind, left, right, checks) ==
  [name |-> name, bin_op |-> bin_op, kind |-> kind, right_kind |-> right_kind,
   left |-> left, right |-> right, checks |-> checks]

ScalarInputs ==
  UNION {{ScalarInput("binary_op", o, k, k, l, r, FALSE) :
            o \in BinOps, l \in Operands(k) \cup ZeroExtended(k),
            r \in Operands(k) \cup ZeroExtended(k)} : k \in ScalarKinds}
    \cup UNION {{ScalarInput("shift", o, k, rk, l, r, FALSE) :
                   o \in {"Shl", "Shr"}, rk \in {"I8", "U8", "U32"}, l \in Operands(k),
                   r \in ShiftAmounts} : k \in ScalarKinds}
    \cup UNION {{ScalarInput("shift", o, k, rk, l, r, FALSE) :
                   o \in {"Shl", "Shr"}, rk \in {"U8", "U32"}, l \in AbstractOperands(k),
                   r \in ShiftAmounts} : k \in ScalarKinds \cup {"U32", "U64"}}
    \cup UNION {{ScalarInput("unary_op", o, k, k, l, Undef, b) :
                   o \in {"Not", "Neg"}, l \in Operands(k), b \in BOOLEAN} : k \in ScalarKinds}

ScalarInit ==
  /\ pc = "scalar"
  /\ mir = FrameMir
  /\ limits = [step_limit |-> MaxStepLimit, stack_limit |-> DefaultStackLimit]
  /\ queue = <<new_ecx(limits, 1)>>
  /\ mems = (1 :> CallMemory)
  /\ globs = (1 :> <<>>)
  /\ stacks = (1 :> CallStack)
  /\ next_ref = 2
  /\ next_alloc_id = 3
  /\ ptr = <<>>
  /\ \E i \in ScalarInputs : hist = [op |-> "input", in |-> i, err |-> "", oob |-> <<>>]

\* Rvalue::BinaryOp on two operands of one kind
ScalarBinaryOp ==
  /\ pc = "scalar" /\ hist.op = "input" /\ hist.in.name = "binary_op"
  /\ \E r \in {intrinsic_overflowing(Cur, hist.in, 1)} : CallApplied("binary_op", r, <<>>)

\* Rvalue::CheckedBinaryOp of a shift
ScalarShift ==
  /\ pc = "scalar" /\ hist.op = "input" /\ hist.in.name = "shift"
  /\ \E r \in {eval_checked_binary_op(Cur, hist.in, 1)} : CallApplied("shift", r, <<>>)

\* Rvalue::UnaryOp
ScalarUnaryOp ==
  /\ pc = "scalar" /\ hist.op = "input" /\ hist.in.name = "unary_op"
  /\ \E r \in {eval_unary_op(Cur, hist.in, 1)} : CallApplied("unary_op", r, <<>>)

ScalarNext == ScalarBinaryOp \/ ScalarShift \/ ScalarUnaryOp

ScalarSpec == ScalarInit /\ [][ScalarNext]_vars

(* Properties of the operators on integers held as Bytes *)

\* an operator has returned a value, which is in the first local
ScalarDone == pc = "scalar" /\ hist.op # "input" /\ hist.err = ""

Out == stacks[1][1].locals[1].p1

\* the operands are concrete and held as the interpreter holds them
AsHeld ==
  /\ hist.in.left \in Operands(hist.in.kind)
  /\ hist.in.name = "binary_op" => hist.in.right \in Operands(hist.in.kind)

\* the bytes of p at and above the width of the kind k are all b
Extended(p, k, b) == \A idx \in (num_bytes(k) + 1)..U128Len : p.n[idx] = b

\* p is a negative number of the signed kind k
Negative(p, k) == is_signed_int(k) /\ p.n[num_bytes(k)] > U8Max \div 2

\* the operator returns a truth value
Compares == hist.in.name = "binary_op" /\ hist.in.bin_op \in Comparisons \cup {"Eq", "Ne"}

C36_SignedSub ==
  /\ ScalarDone /\ AsHeld /\ hist.op = "binary_op" /\ hist.in.bin_op = "Sub"
  /\ Negative(Out, hist.in.kind) /\ Extended(Out, hist.in.kind, U8Max)

\* Not of an unsigned kind has returned a number with the high bit set
C36_UnsignedNot ==
  /\ ScalarDone /\ AsHeld /\ hist.op = "unary_op" /\ hist.in.bin_op = "Not"
  /\ ~is_signed_int(hist.in.kind) /\ Out.n[num_bytes(hist.in.kind)] > U8Max \div 2
  /\ Extended(Out, hist.in.kind, 0)

\* a comparison of two concrete integers of one kind has returned
Compared == ScalarDone /\ hist.op = "binary_op" /\ hist.in.bin_op \in Comparisons

Order(bin_op, a, b) ==
  CASE bin_op = "Lt" -> a < b
    [] bin_op = "Le" -> a <= b
    [] bin_op = "Gt" -> a > b
    [] bin_op = "Ge" -> a >= b

\* the comparison returned the order of the values of the operands: two's
\* complement for a signed kind, unsigned otherwise
InOrder ==
  Out = from_bool(Order(hist.in.bin_op, ValueOf(hist.in.left, hist.in.kind),
                        ValueOf(hist.in.right, hist.in.kind)))

C37_Unsigned ==
  /\ Compared /\ AsHeld /\ ~is_signed_int(hist.in.kind) /\ hist.in.bin_op = "Lt"
  /\ ValueOf(hist.in.left, hist.in.kind) = U8Max /\ ValueOf(hist.in.right, hist.in.kind) = 0
  /\ Out = from_bool(FALSE)

\* -1 of a signed kind with the bytes above the width at zero is not below 0
C37_ZeroExtendedOperand ==
  /\ Compared /\ is_signed_int(hist.in.kind) /\ hist.in.bin_op = "Lt"
  /\ hist.in.left \in ZeroExtended(hist.in.kind) /\ hist.in.right = Num(0)
  /\ ValueOf(hist.in.left, hist.in.kind) = 0 - 1
  /\ Out = from_bool(FALSE)

\* a shift of a concrete integer has returned its value and its overflow flag
Shifted == ScalarDone /\ hist.op = "shift" /\ hist.in.left.t = "Bytes"

\* the shift amount as a number, for the amounts below 2^24
Amount == Unsigned(SubSeq(hist.in.right.n, 1, 3))

Bits(k) == 8 * num_bytes(k)

\* r mod 8w for the shift amount r: the -1 of a signed kind is 2^128 - 1 as u128
Masked ==
  IF Small(hist.in.right.n) THEN Amount % Bits(hist.in.kind) ELSE Bits(hist.in.kind) - 1

\* the left operand shifted by s bits as an integer: Shr rounds down, which is
\* the arithmetic shift of a negative number
RECURSIVE Exp2(_)
Exp2(s) == IF s = 0 THEN 1 ELSE 2 * Exp2(s - 1)

ShiftOf(bin_op, v, s) == IF bin_op = "Shl" THEN v * Exp2(s) ELSE v \div Exp2(s)

\* C38: Shl and Shr on a concrete left operand of width w with shift amount r
\* return the left operand shifted by r mod 8w bits at width w (the arithmetic
\* shift for Shr of a signed kind), whatever the kind of the right operand, and
\* for r below 2^32 the overflow flag is true exactly when r >= 8w
C38_ShiftMasked ==
  Shifted =>
    /\ SubSeq(Out.n, 1, num_bytes(hist.in.kind))
         = ToBytes(ShiftOf(hist.in.bin_op, ValueOf(hist.in.left, hist.in.kind), Masked),
                   num_bytes(hist.in.kind))
    /\ Small(hist.in.right.n) =>
         stacks[1][1].locals[1].p2 = from_bool(Amount >= Bits(hist.in.kind))

\* a negative number has been shifted right by an amount of at least the width,
\* given in a kind other than the kind of the left operand
C38_Witness ==
  /\ Shifted /\ hist.in.bin_op = "Shr" /\ hist.in.kind # hist.in.right_kind
  /\ ValueOf(hist.in.left, hist.in.kind) < 0 - 1
  /\ Small(hist.in.right.n) /\ Amount > Bits(hist.in.kind) /\ Masked > 0
  /\ ValueOf(Out, hist.in.kind) < 0
  /\ ValueOf(Out, hist.in.kind) # ValueOf(hist.in.left, hist.in.kind)
  /\ stacks[1][1].locals[1].p2 = from_bool(TRUE)

\* a left shift within the width has dropped the high bits and not overflowed
C38_Wrapped ==
  /\ Shifted /\ hist.in.bin_op = "Shl" /\ Amount < Bits(hist.in.kind) /\ Amount > 0
  /\ Small(hist.in.right.n)
  /\ ~InRange(ValueOf(hist.in.left, hist.in.kind) * Exp2(Amount), hist.in.kind)
  /\ stacks[1][1].locals[1].p2 = from_bool(FALSE)

\* an Abstract has been shifted by a concrete multiple of 8
AbstractShifted ==
  /\ ScalarDone /\ hist.op = "shift" /\ hist.in.left.t = "Abstract"
  /\ hist.in.right.t = "Bytes" /\ Small(hist.in.right.n) /\ Amount % 8 = 0

\* the shift by num_bytes_ positions computed on the w bytes of the kind
ShiftAtWidth(bin_op, abytes, num_bytes_, w) ==
  [idx \in 1..SBytesLen |->
     IF idx > w THEN Concrete(0)
     ELSE IF bin_op = "Shl"
     THEN (IF idx - 1 >= num_bytes_ THEN abytes[idx - num_bytes_] ELSE Concrete(0))
     ELSE (IF idx + num_bytes_ <= w THEN abytes[idx + num_bytes_] ELSE Concrete(0))]

\* the result is the buffer shifted at the width of the kind of the left
\* operand, and the store has no new constraint
AtWidth ==
  /\ mems[1].constraints = CallMemory.constraints
  /\ Out = AbstractBuffer(ShiftAtWidth(hist.in.bin_op, hist.in.left.n, Amount \div 8,
                                       num_bytes(hist.in.kind)))

\* C39: a shift of an Abstract of a kind of width w by a concrete multiple of 8
\* moves the symbolic bytes by amount/8 positions, fills the vacated positions
\* with Concrete(0), adds no constraint, and leaves every byte at index >= w
\* Concrete(0): the result is the shift computed at the width of the kind
C39_ShiftAtWidth == AbstractShifted => AtWidth

\* the right shifts of unsigned kinds, and the shifts of the 8-byte kind, are
\* the shifts at the width
C39_WithinBuffer ==
  AbstractShifted /\ (hist.in.kind = "U64"
                        \/ (hist.in.bin_op = "Shr" /\ ~is_signed_int(hist.in.kind)))
    => AtWidth

\* a left shift has moved a symbolic byte to an index at or above the width
C39_AboveWidth ==
  /\ AbstractShifted /\ hist.in.bin_op = "Shl"
  /\ mems[1].constraints = CallMemory.constraints
  /\ \E idx \in (num_bytes(hist.in.kind) + 1)..SBytesLen : Out.n[idx].sym # 0

\* a right shift of a signed kind by a multiple of 8 has added a constraint
C39_SignedShr ==
  /\ AbstractShifted /\ hist.in.bin_op = "Shr" /\ is_signed_int(hist.in.kind)
  /\ Len(mems[1].constraints) = Len(CallMemory.constraints) + 1

====
